---- MODULE Spec2Model ----
(***************************************************************************)
(* A model of the JHP template engine (src/history/3.0.0/jhp.js).          *)
(*                                                                         *)
(* Text is modelled as a sequence of tokens: a JavaScript string is a      *)
(* Seq of token strings, concatenation is \o, and the engine's buffers     *)
(* (arrays of pushed pieces) are sequences of such strings.                *)
(*                                                                         *)
(* A script block is a sequence of physical source lines.  Each line is a  *)
(* record naming its textual shape (k) and the identifiers and literals    *)
(* in it; the rewriter (#preprocessScriptBlock) is an operator from the    *)
(* lines to the calls the rewritten code makes when it is evaluated.       *)
(***************************************************************************)
EXTENDS Integers, Sequences, FiniteSets, TLC

(***************************************************************************)
(* Bounds of the model.                                                    *)
(***************************************************************************)
MaxBlocks == 2        \* script blocks per document
MaxStmts == 2         \* statements per script block
MaxDepth == 1         \* include nesting depth
CondMaxBlocks == 5    \* script blocks per document in SpecCond
DefineMaxBlocks == 3  \* script blocks per document in SpecDefine
IncludeMaxBlocks == 1 \* script blocks per document in SpecInclude
ErrorMaxBlocks == 3   \* script blocks per document in SpecError
MissingMaxBlocks == 2 \* script blocks per document in SpecMissing

(***************************************************************************)
(* Values.                                                                 *)
(***************************************************************************)
Names == {"x", "K", "f"}
None == "-"
Vals == {<<"1">>, <<"2">>}
NoVal == <<"#absent">>            \* Map.has(key) is false
JsUndefined == <<"#undefined">>   \* the value undefined
FnVal(v) == <<"#function">> \o v  \* a function that returns v
IsFn(val) == Len(val) > 0 /\ val[1] = "#function"
FnResult(val) == Tail(val)
Sentinel(n) == <<"<< Undefined: ", n, " >>">>
ErrVariableDeclared(k) ==
    <<"<< Error: ", "Variable '", k, "' already declared, unable to declare as constant.", " >>">>
ErrAttemptedRedeclare(k) ==
    <<"<< Error: ", "Attempted to redeclare defined constant '", k, "'.", " >>">>
ErrAttemptRedeclare(k) ==
    <<"<< Error: ", "Attempt to redeclare defined constant '", k, "'.", " >>">>
ErrResolve(base) == <<"<< Error: ", "Unable to resolve include path '", base, "'", " >>">>
ErrThrown(msg) == <<"<< Error: ", msg, ".", " >>">>
ErrUnclosed == <<"<< Error: ", "Unclosed conditional block detected.", " >>">>
Html(i) == <<"html", ToString(i)>>   \* the i-th literal markup region of a document
Ws == " "                             \* a whitespace token

EmptyMap == [n \in Names |-> NoVal]
Has(m, k) == m[k] # NoVal

(***************************************************************************)
(* Array.prototype.join: undefined elements render as the empty string.    *)
(***************************************************************************)
Piece(e) == IF e = JsUndefined THEN <<>> ELSE e

RECURSIVE JoinWith(_, _)
JoinWith(arr, sep) ==
    IF arr = <<>> THEN <<>>
    ELSE IF Len(arr) = 1 THEN Piece(arr[1])
    ELSE Piece(arr[1]) \o sep \o JoinWith(Tail(arr), sep)

JoinEmpty(arr) == JoinWith(arr, <<>>)      \* arr.join('')
JoinDefault(arr) == JoinWith(arr, <<",">>) \* arr.join()

RECURSIVE TrimStart(_)
TrimStart(s) == IF s # <<>> /\ s[1] = Ws THEN TrimStart(Tail(s)) ELSE s

RECURSIVE TrimEnd(_)
TrimEnd(s) ==
    IF s # <<>> /\ s[Len(s)] = Ws THEN TrimEnd(SubSeq(s, 1, Len(s) - 1)) ELSE s

Trim(s) == TrimEnd(TrimStart(s))           \* String.prototype.trim

(***************************************************************************)
(* #serializeValue, and the value the literal it returns evaluates to.     *)
(* A string becomes a template literal: a backtick and a dollar-brace are  *)
(* escaped and nothing else is, so a token that is a backslash escape in   *)
(* the source of the literal is read back as the character it denotes.     *)
(***************************************************************************)
SerializeToken(t) ==
    IF t = "BACKTICK" THEN "ESC-BACKTICK"
    ELSE IF t = "DOLLAR-BRACE" THEN "ESC-DOLLAR-BRACE" ELSE t

SerializeValue(val) ==
    IF val = JsUndefined \/ IsFn(val) THEN val
    ELSE [i \in DOMAIN val |-> SerializeToken(val[i])]

EvalToken(t) ==
    IF t = "ESC-BACKTICK" THEN "BACKTICK"
    ELSE IF t = "ESC-DOLLAR-BRACE" THEN "DOLLAR-BRACE"
    ELSE IF t = "BACKSLASH-n" THEN "LF" ELSE t

EvalLiteral(lit) ==
    IF lit = JsUndefined \/ IsFn(lit) THEN lit
    ELSE [i \in DOMAIN lit |-> EvalToken(lit[i])]

(***************************************************************************)
(* Source lines of a script block.  k names the shape of the line:         *)
(*   assign         n = v;                                                 *)
(*   decl           let n = v;            (or const)                       *)
(*   var            var n = v;                                             *)
(*   declOb         let n = $obClose();                                    *)
(*   assignOb       n = $obClose();                                        *)
(*   echo           $echo(n);             ($echo('v'); when n is None)     *)
(*   echoIn         if (true) $echo(n);   (an echo not at the line start)  *)
(*   echoCall       $echo(n());                                            *)
(*   define         $define('n', v);                                       *)
(*   context        $context('n', v);                                      *)
(*   if / elseif    $if(b);  $elseif(b);                                   *)
(*   else / end     $else();  $end();                                      *)
(*   include        $include('ref');                                       *)
(*   declInc        let n = $include('ref');                               *)
(*   assignInc      n = $include('ref');                                   *)
(*   declIncScoped  let n = $include('ref', $.conditionalScope);           *)
(*   obOpen         $obOpen();                                             *)
(*   arrow1         const n = () => v;                                     *)
(*   arrowOpen      const n = () => {                                      *)
(*   func1          function n() { return v; }                             *)
(*   funcOpen       function n() {                                         *)
(*   funcRet        return v;             (inside a function body)         *)
(*   funcClose      }                     (n, v: the function it closes)   *)
(***************************************************************************)
NoRef == [slash |-> FALSE, base |-> None]
Line(k, n, v, b, ref) == [k |-> k, n |-> n, v |-> v, b |-> b, ref |-> ref]

StartsWithDollar(l) ==
    l.k \in {"echo", "echoCall", "define", "context", "if", "elseif", "else",
             "end", "include", "obOpen"}
ContainsDollar(l) ==
    StartsWithDollar(l)
    \/ l.k \in {"echoIn", "declOb", "assignOb", "declInc", "assignInc", "declIncScoped"}
ArrowMatch(l) == l.k \in {"arrow1", "arrowOpen"}
FuncMatch(l) == l.k \in {"func1", "funcOpen"}
OpenBraces(l) == IF l.k \in {"func1", "funcOpen", "arrowOpen"} THEN 1 ELSE 0
CloseBraces(l) == IF l.k \in {"func1", "funcClose"} THEN 1 ELSE 0
DeclarationMatch(l) == l.k \in {"decl", "var", "declOb", "declInc", "declIncScoped"}
ReassignmentMatch(l) == l.k \in {"assign", "decl", "var"}

(***************************************************************************)
(* The calls and assignments a piece of code makes when it is evaluated.   *)
(*   op   set (n = v), ctx ($.context('n', n)), context, define, echo,     *)
(*        echoCall, if, elseif, else, end, include, obOpen, obClose        *)
(*   n    the identifier read or assigned (None: a literal, no target)     *)
(*   sc   the conditionalScope argument: "scope" ($.conditionalScope),     *)
(*        "none" (omitted) or "true" (the literal true)                    *)
(*   b    the predicate of if/elseif; the assignMode argument of include   *)
(*   init the call is the initializer of a let/const/var declarator        *)
(***************************************************************************)
Op(o, n, v, b, sc, ref, init) ==
    [op |-> o, n |-> n, v |-> v, b |-> b, sc |-> sc, ref |-> ref, init |-> init]

SetOp(n, v) == Op("set", n, v, FALSE, "none", NoRef, FALSE)
CtxOp(n) == Op("ctx", n, <<>>, FALSE, "none", NoRef, FALSE)
EchoOp(n, v, sc) == Op("echo", n, v, FALSE, sc, NoRef, FALSE)

\* A line evaluated as written (after #tokenReplacement turned $name into $.name).
Raw(l) ==
    CASE l.k \in {"assign", "decl", "var"} -> <<SetOp(l.n, l.v)>>
      [] l.k \in {"declOb", "assignOb"} ->
            <<Op("obClose", l.n, <<>>, FALSE, "none", NoRef, l.k = "declOb")>>
      [] l.k \in {"echo", "echoIn"} -> <<EchoOp(l.n, l.v, "none")>>
      [] l.k = "echoCall" -> <<Op("echoCall", l.n, <<>>, FALSE, "none", NoRef, FALSE)>>
      [] l.k \in {"define", "context"} ->
            <<Op(l.k, l.n, l.v, FALSE, "none", NoRef, FALSE)>>
      [] l.k \in {"if", "elseif", "else", "end"} ->
            <<Op(l.k, None, <<>>, l.b, "none", NoRef, FALSE)>>
      [] l.k = "include" -> <<Op("include", None, <<>>, FALSE, "none", l.ref, FALSE)>>
      [] l.k = "declInc" -> <<Op("include", l.n, <<>>, FALSE, "none", l.ref, TRUE)>>
      [] l.k = "assignInc" -> <<Op("include", l.n, <<>>, FALSE, "none", l.ref, FALSE)>>
      [] l.k = "declIncScoped" -> <<Op("include", l.n, <<>>, FALSE, "scope", l.ref, TRUE)>>
      [] l.k = "obOpen" -> <<Op("obOpen", None, <<>>, FALSE, "none", NoRef, FALSE)>>
      [] l.k = "arrow1" -> <<SetOp(l.n, FnVal(l.v))>>
      [] l.k = "funcClose" /\ l.b -> <<SetOp(l.n, FnVal(l.v))>>   \* }; of an arrow
      [] OTHER -> <<>>   \* function declarations are hoisted; a body line runs on call

WithScope(ops) == [i \in DOMAIN ops |-> [ops[i] EXCEPT !.sc = "scope"]]

\* The replacement for a declaration or reassignment of a constant.
ConstantGuard(n, consts) ==
    <<EchoOp(None, ErrAttemptRedeclare(n), "none"),
      SetOp(n, EvalLiteral(SerializeValue(consts[n])))>>

\* Lines 545-616: a line outside the function tracker.
RewriteLine(l, consts) ==
    IF StartsWithDollar(l) THEN
        IF l.k \in {"else", "end"} THEN WithScope(Raw(l))
        ELSE IF l.k \in {"if", "elseif", "echo", "echoCall", "include"} THEN WithScope(Raw(l))
        ELSE Raw(l)
    ELSE IF DeclarationMatch(l) THEN
        IF Has(consts, l.n) THEN ConstantGuard(l.n, consts)
        ELSE IF l.k # "var" THEN Raw(l) \o <<CtxOp(l.n)>>
        ELSE IF ~ContainsDollar(l) /\ ReassignmentMatch(l) THEN Raw(l) \o <<CtxOp(l.n)>>
        ELSE Raw(l)
    ELSE IF ~ContainsDollar(l) /\ ReassignmentMatch(l) THEN
        IF Has(consts, l.n) THEN ConstantGuard(l.n, consts)
        ELSE Raw(l) \o <<CtxOp(l.n)>>
    ELSE Raw(l)

(***************************************************************************)
(* Lines 518-543: the function tracker.  cpf is currentlyProcessingFunction *)
(* (None when null), depth is currentBraceDepth.  Returns the rewritten    *)
(* lines, each the sequence of its calls.                                  *)
(***************************************************************************)
RECURSIVE MapLines(_, _, _, _)
MapLines(lines, cpf, depth, consts) ==
    IF lines = <<>> THEN <<>>
    ELSE
        LET l == Head(lines)
            rest == Tail(lines)
        IN  IF ArrowMatch(l) \/ FuncMatch(l) THEN
                IF OpenBraces(l) = 0
                THEN <<Raw(l) \o <<CtxOp(l.n)>>>> \o MapLines(rest, cpf, depth, consts)
                ELSE <<Raw(l)>> \o MapLines(rest, l.n, 1, consts)
            ELSE IF cpf # None THEN
                LET d == depth + OpenBraces(l) - CloseBraces(l)
                IN  IF d = 0
                    THEN <<Raw(l) \o <<CtxOp(cpf)>>>> \o MapLines(rest, None, d, consts)
                    ELSE <<Raw(l)>> \o MapLines(rest, cpf, d, consts)
            ELSE <<RewriteLine(l, consts)>> \o MapLines(rest, cpf, depth, consts)

\* Lines 634-639: a let/const declaration of a context variable loses its keyword.
StripDeclaration(ops, ctx) ==
    [i \in DOMAIN ops |->
        IF ops[i].init /\ ops[i].n # None /\ Has(ctx, ops[i].n)
        THEN [ops[i] EXCEPT !.init = FALSE] ELSE ops[i]]

\* Lines 1084-1092: $.include(...) as the init of a declarator gets a trailing true.
WalkIncludes(ops) ==
    [i \in DOMAIN ops |->
        IF ops[i].op = "include" /\ ops[i].init
        THEN IF ops[i].sc = "none" THEN [ops[i] EXCEPT !.sc = "true"]
             ELSE [ops[i] EXCEPT !.b = TRUE]
        ELSE ops[i]]

RECURSIVE Concat(_)
Concat(seqs) == IF seqs = <<>> THEN <<>> ELSE Head(seqs) \o Concat(Tail(seqs))

\* #preprocessScriptBlock: the calls of the rewritten block, in order.
PreprocessScriptBlock(lines, consts, ctx) ==
    WalkIncludes(StripDeclaration(Concat(MapLines(lines, None, 0, consts)), ctx))

(***************************************************************************)
(* Lines 1095-1135: the identifiers the walk collects, and the ones it     *)
(* binds to the sentinel.  The names of define and context calls are       *)
(* string literals, not identifiers.                                       *)
(***************************************************************************)
LineNames(lines, kinds) ==
    {lines[i].n : i \in {j \in DOMAIN lines : lines[j].k \in kinds}} \ {None}

DeclaredVars(lines) ==
    LineNames(lines, {"decl", "var", "declOb", "declInc", "declIncScoped", "arrow1", "arrowOpen"})

\* The parameter of a function line: const n = (p) => v; has the field p.
Param(l) == IF "p" \in DOMAIN l THEN l.p ELSE None
ParamNames(lines) == {Param(lines[i]) : i \in DOMAIN lines} \ {None}

UsedVars(lines) ==
    LineNames(lines, {"assign", "decl", "var", "declOb", "assignOb", "echo", "echoIn",
                      "echoCall", "declInc", "assignInc", "declIncScoped", "arrow1",
                      "arrowOpen", "func1", "funcOpen"})
    \cup ParamNames(lines)

UndefinedVars(lines, consts, ctx) ==
    {n \in UsedVars(lines) \ DeclaredVars(lines) : ~Has(ctx, n) /\ ~Has(consts, n)}

HoistedFn(lines, n) ==
    IF \E i \in DOMAIN lines : lines[i].k \in {"func1", "funcOpen"} /\ lines[i].n = n
    THEN FnVal(lines[CHOOSE i \in DOMAIN lines :
                    lines[i].k \in {"func1", "funcOpen"} /\ lines[i].n = n
                    /\ \A j \in DOMAIN lines :
                         (lines[j].k \in {"func1", "funcOpen"} /\ lines[j].n = n) => j <= i].v)
    ELSE JsUndefined

(***************************************************************************)
(* The bindings the block's code starts with: the prelude (lines 619-629:  *)
(* constants, then context variables, all turned into var by the walk, so  *)
(* the context value wins), the sentinels, and hoisted functions.          *)
(***************************************************************************)
InitialBindings(lines, consts, ctx) ==
    [n \in Names |->
        IF Has(ctx, n) THEN EvalLiteral(SerializeValue(ctx[n]))
        ELSE IF Has(consts, n) THEN EvalLiteral(SerializeValue(consts[n]))
        ELSE IF n \in UndefinedVars(lines, consts, ctx) THEN Sentinel(n)
        ELSE HoistedFn(lines, n)]

(***************************************************************************)
(* Files.  A path is a directory and a base name; an include reference is  *)
(* a base name, root-relative when it starts with a slash.                 *)
(***************************************************************************)
RootDir == "/site"
SubDir == "/site/sub"
Dirs == {RootDir, SubDir}
Bases == {"a"}
Paths == [dir : Dirs, base : Bases]
NoPath == [dir |-> None, base |-> None]
FsRoot == "/"
\* The relative parts that start with a slash, and the name after the slash.
Rooted == [b \in {"/a", "/b"} |-> IF b = "/a" THEN "a" ELSE "b"]
\* Path.resolve(dir, base): an absolute second argument discards the first.
PathResolve(dir, base) ==
    IF base \in DOMAIN Rooted THEN [dir |-> FsRoot, base |-> Rooted[base]]
    ELSE [dir |-> dir, base |-> base]
Dirname(path) == path.dir

VARIABLES
    constants,          \* #constants
    currentBuffer,      \* #currentBuffer
    currentContext,     \* #currentContext
    cwd,                \* #cwd
    htmlOutputBuffer,   \* #htmlOutputBuffer
    initialConstants,   \* #initialConstants
    rootDir,            \* #rootDir
    files,              \* the paths for which Fs.existsSync is true
    unreadable,         \* the paths for which Fs.readFileSync throws
    templateText,       \* parse: the text given to the tokenizer
    dom,                \* parse: the tree it returns
    selector,           \* querySelectorAll: its argument
    results,            \* querySelectorAll: the nodes it returns
    template,           \* #processTemplate: the text scanned for script blocks
    lastIndex,          \* #processTemplate: where the next scan starts
    evaluated,          \* the bodies handed to the evaluator, in order
    output,             \* the text process, or toHtml, returned
    reference,          \* #resolvePath: the reference of the include
    resolved,           \* #resolvePath: the path it returned
    iterators,          \* the iterators created, each with the variables of its closure
    protoRemove,        \* Node.prototype.remove: the iterators whose patch wraps the original
    jsValue,            \* #serializeValue: its argument
    fragment,           \* #serializeValue: the code it returns
    revived,            \* what evaluating that code gives
    optionsContext,     \* the mapping the caller of process passed as options.context
    stack,              \* the activations of #processTemplate, outermost first
    status              \* "idle", "running" (inside process) or "done"

\* What the tokenizer, the template scan and the path resolution work on.
textVars == <<templateText, dom, selector, results, template, lastIndex, evaluated, output,
              reference, resolved>>
\* What the tree iterators work on.
iterVars == <<iterators, protoRemove>>
\* What the value serializer works on.
serialVars == <<jsValue, fragment, revived>>
vars == <<constants, currentBuffer, currentContext, cwd, htmlOutputBuffer,
          initialConstants, rootDir, files, unreadable, textVars, iterVars, serialVars,
          optionsContext, stack, status>>

\* A value of the host language: its type, the characters that tell it from
\* the other values of the type (the keys, for an object) and the values it
\* holds.
JsOf(t, v, items) == [t |-> t, v |-> v, items |-> items]
Js(t, v) == JsOf(t, v, <<>>)
\* No mapping was passed: kind is "object" or "map", passed the entries at
\* the call, entries the entries now, held whether #currentContext is it.
NoOptions == [kind |-> "none", passed |-> EmptyMap, entries |-> EmptyMap, held |-> FALSE]

\* Before any text is tokenized, scanned or resolved.
TextIdle ==
    /\ templateText = <<>> /\ dom = <<>> /\ selector = <<>> /\ results = <<>>
    /\ template = <<>> /\ lastIndex = 0 /\ evaluated = <<>> /\ output = <<>>
    /\ reference = NoRef /\ resolved = NoPath
    /\ iterators = <<>> /\ protoRemove = 0
    /\ jsValue = Js("undefined", <<>>) /\ fragment = <<>> /\ revived = Js("undefined", <<>>)
    /\ optionsContext = NoOptions

Top == stack[Len(stack)]
SetTop(f) == [stack EXCEPT ![Len(stack)] = f]

\* Path.isAbsolute on a host where only a leading slash makes a path absolute.
IsAbsolute(ref) == ref.slash
\* The file a reference names when it is an absolute path.
AsPath(ref) == PathResolve(FsRoot, ref.base)

\* #resolvePath; ref.base is the reference without its leading slash.
ResolvePath(ref, currentDir) ==
    IF ref.slash THEN
        IF PathResolve(rootDir, ref.base) \in files
        THEN PathResolve(rootDir, ref.base) ELSE NoPath
    ELSE IF IsAbsolute(ref) THEN
        IF AsPath(ref) \in files THEN AsPath(ref) ELSE NoPath
    ELSE IF PathResolve(currentDir, ref.base) \in files
        THEN PathResolve(currentDir, ref.base)
    ELSE IF rootDir # currentDir /\ PathResolve(rootDir, ref.base) \in files
        THEN PathResolve(rootDir, ref.base)
    ELSE NoPath

(***************************************************************************)
(* One activation of #processTemplate: the conditional scope's three flags, *)
(* the block being evaluated (the calls left, the bindings of its code),   *)
(* and what the #include that started it saved.  trail and wrote record    *)
(* what happened in the document: the regions and conditional calls the    *)
(* driver went through (see Track), and every piece written while it was   *)
(* processed;                                                              *)
(* lastInclude records the latest #include that returned into the          *)
(* document: its mode, what it returned, what was written meanwhile, and   *)
(* the current buffer before the call and after the return; code is the    *)
(* source of the block being evaluated, and bound the value each name was  *)
(* last given by a declaration, an assignment or a context call anywhere   *)
(* in the process call.                                                    *)
(***************************************************************************)
NewFrame(file, assignMode, prevBuffer, previousCwd, bound) ==
    [file |-> file,
     addBlockContentToBuffer |-> TRUE,
     blockHasBeenShown |-> FALSE,
     conditionalBlockOpen |-> FALSE,
     inBlock |-> FALSE,
     pending |-> FALSE,
     ops |-> <<>>,
     code |-> <<>>,
     env |-> [n \in Names |-> JsUndefined],
     bound |-> bound,
     nblocks |-> 0,
     assignMode |-> assignMode,
     prevBuffer |-> prevBuffer,
     previousCwd |-> previousCwd,
     trail |-> <<>>,
     wrote |-> <<>>,
     lastInclude |-> [called |-> FALSE, assignMode |-> FALSE, result |-> <<>>,
                      wrote |-> <<>>, before |-> <<>>, after |-> <<>>]]

\* A write goes to the output buffer when it is open, else to the current buffer.
PushBuffer(content) ==
    IF htmlOutputBuffer.open THEN currentBuffer ELSE Append(currentBuffer, content)
PushOb(content) ==
    IF htmlOutputBuffer.open
    THEN [htmlOutputBuffer EXCEPT !.value = Append(@, content)]
    ELSE htmlOutputBuffer

Init ==
    /\ constants = EmptyMap
    /\ currentBuffer = <<>>
    /\ currentContext = EmptyMap
    /\ cwd = ""
    /\ htmlOutputBuffer = [open |-> FALSE, value |-> <<>>]
    /\ initialConstants \in {EmptyMap, [EmptyMap EXCEPT !["K"] = <<"1">>]}
    /\ rootDir \in {None, RootDir}
    /\ files \in SUBSET Paths
    /\ unreadable \in SUBSET Paths
    /\ TextIdle
    /\ stack = <<>>
    /\ status = "idle"

\* process(code, {context, cwd}) up to the call of #processFile (lines 658-724).
Process(context, dir) ==
    /\ status = "idle"
    /\ constants' = initialConstants
    /\ currentBuffer' = <<>>
    /\ currentContext' = context
    /\ htmlOutputBuffer' = [open |-> FALSE, value |-> <<>>]
    /\ cwd' = dir
    /\ stack' = <<NewFrame(NoPath, FALSE, <<>>, dir, EmptyMap)>>
    /\ status' = "running"
    /\ rootDir' = IF rootDir = None THEN dir ELSE rootDir
    /\ UNCHANGED <<initialConstants, files, unreadable, textVars, iterVars, serialVars, optionsContext>>

(***************************************************************************)
(* process(path, {context}): the input is the path of a file.  When the    *)
(* file cannot be read #processFile catches the error and returns its      *)
(* message (lines 741-761); process drops it (line 724) and goes on to     *)
(* return the empty buffer.                                                *)
(***************************************************************************)
ProcessPath(context, path) ==
    /\ status = "idle"
    /\ constants' = initialConstants
    /\ currentBuffer' = <<>>
    /\ currentContext' = context
    /\ htmlOutputBuffer' = [open |-> FALSE, value |-> <<>>]
    /\ cwd' = Dirname(path)
    /\ stack' = <<NewFrame(path, FALSE, <<>>, Dirname(path), EmptyMap)>>
    /\ status' = IF path \in files \ unreadable THEN "running" ELSE "done"
    /\ rootDir' = IF rootDir = None THEN Dirname(path) ELSE rootDir
    /\ UNCHANGED <<initialConstants, files, unreadable, textVars, iterVars, serialVars, optionsContext>>

(***************************************************************************)
(* The script blocks of up to k statements, each statement one line or the *)
(* lines of a multi-line function.                                         *)
(***************************************************************************)
RECURSIVE StmtSeqs(_, _)
StmtSeqs(stmts, k) ==
    IF k = 0 THEN {<<>>}
    ELSE LET shorter == StmtSeqs(stmts, k - 1)
         IN  shorter \cup {st \o b : st \in stmts, b \in shorter}

IncludeKinds == {"include", "declInc", "assignInc", "declIncScoped"}
HasInclude(lines) == \E i \in DOMAIN lines : lines[i].k \in IncludeKinds

Event(e, i, b) == [e |-> e, i |-> i, b |-> b]

(***************************************************************************)
(* The trail of a document is kept while the document has the shape of one *)
(* conditional chain: markup, if, markup, elseif, markup, elseif, markup,  *)
(* else, markup, end, markup (the first and last region may be empty).     *)
(* Any other document's trail is Off.                                      *)
(***************************************************************************)
ChainShape == <<"region", "if", "html", "elseif", "html", "elseif", "html",
                "else", "html", "end", "region">>
Off == <<Event("off", 0, FALSE)>>
Matches(ev, shape) ==
    IF shape = "region" THEN ev.e \in {"html", "ws", "empty"} ELSE ev.e = shape
Track(trail, ev) ==
    IF trail = Off \/ Len(trail) >= Len(ChainShape) THEN Off
    ELSE IF Matches(ev, ChainShape[Len(trail) + 1]) THEN Append(trail, ev)
    ELSE Off

Running == status = "running" /\ stack # <<>>
Evaluating == Running /\ Top.inBlock /\ Top.ops # <<>>
NextOp == Head(Top.ops)
Done(f) == [f EXCEPT !.ops = Tail(@)]
Wrote(f, content) == [f EXCEPT !.wrote = Append(@, content)]
Bind(f, n, val) == IF n = None THEN f ELSE [f EXCEPT !.env[n] = val, !.bound[n] = val]
Hoist(bound, lines) ==
    [n \in Names |-> IF HoistedFn(lines, n) # JsUndefined THEN HoistedFn(lines, n) ELSE bound[n]]

(***************************************************************************)
(* #processTemplate, lines 815-831: the next script block is matched, the  *)
(* markup before it is written if the conditional scope shows it, and the  *)
(* block's code is rewritten for evaluation.                               *)
(***************************************************************************)
BeginBlock(blocks, maxBlocks, regions) ==
    /\ Running
    /\ ~Top.inBlock
    /\ Top.nblocks < maxBlocks
    /\ \E kind \in regions, lines \in blocks :
        LET htmlContent == IF kind = "html" THEN Html(Top.nblocks + 1)
                           ELSE IF kind = "ws" THEN <<Ws>> ELSE <<>>
            show == Top.addBlockContentToBuffer
            f == [Top EXCEPT
                    !.inBlock = TRUE,
                    !.nblocks = @ + 1,
                    !.code = lines,
                    !.bound = Hoist(@, lines),
                    !.ops = PreprocessScriptBlock(lines, constants, currentContext),
                    !.env = InitialBindings(lines, constants, currentContext),
                    !.trail = Track(@, Event(kind, Top.nblocks + 1, show))]
        IN  /\ HasInclude(lines) => Len(stack) <= MaxDepth
            /\ currentBuffer' = IF show THEN PushBuffer(htmlContent) ELSE currentBuffer
            /\ htmlOutputBuffer' = IF show THEN PushOb(htmlContent) ELSE htmlOutputBuffer
            /\ stack' = SetTop(IF show THEN Wrote(f, htmlContent) ELSE f)
    /\ UNCHANGED <<constants, currentContext, cwd, initialConstants, rootDir, files, unreadable, textVars, iterVars, serialVars, optionsContext, status>>

\* Line 838: the block's code has run to its end; the loop looks for the next match.
EndBlock ==
    /\ Running
    /\ Top.inBlock
    /\ Top.ops = <<>>
    /\ stack' = SetTop([Top EXCEPT !.inBlock = FALSE])
    /\ UNCHANGED <<constants, currentBuffer, currentContext, cwd, htmlOutputBuffer,
                   initialConstants, rootDir, files, unreadable, textVars, iterVars, serialVars, optionsContext, status>>

\* A plain assignment of the block's code: n = v.
Assign ==
    /\ Evaluating
    /\ NextOp.op = "set"
    /\ stack' = SetTop(Bind(Done(Top), NextOp.n, NextOp.v))
    /\ UNCHANGED <<constants, currentBuffer, currentContext, cwd, htmlOutputBuffer,
                   initialConstants, rootDir, files, unreadable, textVars, iterVars, serialVars, optionsContext, status>>

\* #dollar.context (lines 53-55), called by the rewriter's $.context('n', n) or by the script.
Context ==
    /\ Evaluating
    /\ NextOp.op \in {"ctx", "context"}
    /\ currentContext' = [currentContext EXCEPT
            ![NextOp.n] = IF NextOp.op = "ctx" THEN Top.env[NextOp.n] ELSE NextOp.v]
    /\ stack' = SetTop(IF NextOp.op = "ctx" THEN Done(Top)
                        ELSE [Done(Top) EXCEPT !.bound[NextOp.n] = NextOp.v])
    /\ UNCHANGED <<constants, currentBuffer, cwd, htmlOutputBuffer,
                   initialConstants, rootDir, files, unreadable, textVars, iterVars, serialVars, optionsContext, status>>

StrictEquals(a, b) == a = b

\* define without the test of the context (lines 58-66 left out).
DefineIgnoringContext ==
    /\ Evaluating
    /\ NextOp.op = "define"
    /\ LET key == NextOp.n
           value == NextOp.v
       IN  IF ~Has(constants, key) THEN
               /\ constants' = [constants EXCEPT ![key] = value]
               /\ stack' = SetTop(Done(Top))
               /\ UNCHANGED <<currentBuffer, htmlOutputBuffer>>
           ELSE IF StrictEquals(constants[key], value) THEN
               /\ stack' = SetTop(Done(Top))
               /\ UNCHANGED <<constants, currentBuffer, htmlOutputBuffer>>
           ELSE
               /\ currentBuffer' = PushBuffer(ErrAttemptedRedeclare(key))
               /\ htmlOutputBuffer' = PushOb(ErrAttemptedRedeclare(key))
               /\ stack' = SetTop(Wrote(Done(Top), ErrAttemptedRedeclare(key)))
               /\ UNCHANGED constants
    /\ UNCHANGED <<currentContext, cwd, initialConstants, rootDir, files, unreadable, textVars, iterVars, serialVars, optionsContext, status>>

\* #dollar.define (lines 56-86).
Define ==
    /\ Evaluating
    /\ NextOp.op = "define"
    /\ LET key == NextOp.n
           value == NextOp.v
       IN  IF Has(currentContext, key) THEN
               /\ currentBuffer' = PushBuffer(ErrVariableDeclared(key))
               /\ htmlOutputBuffer' = PushOb(ErrVariableDeclared(key))
               /\ stack' = SetTop(Wrote(Done(Top), ErrVariableDeclared(key)))
               /\ UNCHANGED constants
           ELSE IF ~Has(constants, key) THEN
               /\ constants' = [constants EXCEPT ![key] = value]
               /\ stack' = SetTop(Done(Top))
               /\ UNCHANGED <<currentBuffer, htmlOutputBuffer>>
           ELSE IF StrictEquals(constants[key], value) THEN
               /\ stack' = SetTop(Done(Top))
               /\ UNCHANGED <<constants, currentBuffer, htmlOutputBuffer>>
           ELSE
               /\ currentBuffer' = PushBuffer(ErrAttemptedRedeclare(key))
               /\ htmlOutputBuffer' = PushOb(ErrAttemptedRedeclare(key))
               /\ stack' = SetTop(Wrote(Done(Top), ErrAttemptedRedeclare(key)))
               /\ UNCHANGED constants
    /\ UNCHANGED <<currentContext, cwd, initialConstants, rootDir, files, unreadable, textVars, iterVars, serialVars, optionsContext, status>>

\* The argument of an echo: a literal, a variable, or the result of calling it.
Callable(op) == IF op.op = "echoCall" THEN IsFn(Top.env[op.n]) ELSE TRUE
EchoArgument(op) ==
    IF op.op = "echoCall" THEN FnResult(Top.env[op.n])
    ELSE IF op.n = None THEN op.v ELSE Top.env[op.n]

\* Whether the conditionalScope argument lets the call go ahead (lines 92 and 355).
Shown(op) == IF op.sc = "none" THEN TRUE ELSE Top.addBlockContentToBuffer

\* #dollar.echo (lines 87-101).
Echo ==
    /\ Evaluating
    /\ NextOp.op \in {"echo", "echoCall"}
    /\ Callable(NextOp)
    /\ IF Shown(NextOp) THEN
           /\ currentBuffer' = PushBuffer(EchoArgument(NextOp))
           /\ htmlOutputBuffer' = PushOb(EchoArgument(NextOp))
           /\ stack' = SetTop(Wrote(Done(Top), EchoArgument(NextOp)))
       ELSE
           /\ stack' = SetTop(Done(Top))
           /\ UNCHANGED <<currentBuffer, htmlOutputBuffer>>
    /\ UNCHANGED <<constants, currentContext, cwd, initialConstants, rootDir, files, unreadable, textVars, iterVars, serialVars, optionsContext, status>>

\* Block without the test of blockHasBeenShown (lines 794-797 left out).
BlockIgnoringShown(f, result, end) ==
    IF end THEN
        [f EXCEPT !.addBlockContentToBuffer = TRUE,
                  !.blockHasBeenShown = FALSE,
                  !.conditionalBlockOpen = FALSE]
    ELSE IF ~result THEN [f EXCEPT !.addBlockContentToBuffer = FALSE]
    ELSE [f EXCEPT !.addBlockContentToBuffer = TRUE,
                   !.blockHasBeenShown = TRUE,
                   !.conditionalBlockOpen = TRUE]

\* conditionalScope.block (lines 784-809).
Block(f, result, end) ==
    IF end THEN
        [f EXCEPT !.addBlockContentToBuffer = TRUE,
                  !.blockHasBeenShown = FALSE,
                  !.conditionalBlockOpen = FALSE]
    ELSE IF f.blockHasBeenShown THEN [f EXCEPT !.addBlockContentToBuffer = FALSE]
    ELSE IF ~result THEN [f EXCEPT !.addBlockContentToBuffer = FALSE]
    ELSE [f EXCEPT !.addBlockContentToBuffer = TRUE,
                   !.blockHasBeenShown = TRUE,
                   !.conditionalBlockOpen = TRUE]

\* The call is noted in the document's trail and done; pending tells whether
\* the latest if of the document has not been followed by an end.
Called(f, name) ==
    [Done(f) EXCEPT !.trail = Track(@, Event(name, 0, Head(f.ops).b)),
                    !.pending = IF name = "if" THEN TRUE ELSE IF name = "end" THEN FALSE ELSE @]

\* #dollar.if (lines 111-113).
If ==
    /\ Evaluating
    /\ NextOp.op = "if"
    /\ NextOp.sc = "scope"
    /\ stack' = SetTop(Block(Called(Top, "if"), NextOp.b, FALSE))
    /\ UNCHANGED <<constants, currentBuffer, currentContext, cwd, htmlOutputBuffer,
                   initialConstants, rootDir, files, unreadable, textVars, iterVars, serialVars, optionsContext, status>>

\* #dollar.elseif (lines 105-107).
Elseif ==
    /\ Evaluating
    /\ NextOp.op = "elseif"
    /\ NextOp.sc = "scope"
    /\ stack' = SetTop(Block(Called(Top, "elseif"), NextOp.b, FALSE))
    /\ UNCHANGED <<constants, currentBuffer, currentContext, cwd, htmlOutputBuffer,
                   initialConstants, rootDir, files, unreadable, textVars, iterVars, serialVars, optionsContext, status>>

\* #dollar.else (lines 102-104).
Else ==
    /\ Evaluating
    /\ NextOp.op = "else"
    /\ NextOp.sc = "scope"
    /\ stack' = SetTop(Block(Called(Top, "else"), TRUE, FALSE))
    /\ UNCHANGED <<constants, currentBuffer, currentContext, cwd, htmlOutputBuffer,
                   initialConstants, rootDir, files, unreadable, textVars, iterVars, serialVars, optionsContext, status>>

\* #dollar.end (lines 108-110).
End ==
    /\ Evaluating
    /\ NextOp.op = "end"
    /\ NextOp.sc = "scope"
    /\ stack' = SetTop(Block(Called(Top, "end"), FALSE, TRUE))
    /\ UNCHANGED <<constants, currentBuffer, currentContext, cwd, htmlOutputBuffer,
                   initialConstants, rootDir, files, unreadable, textVars, iterVars, serialVars, optionsContext, status>>

\* #dollar.obOpen (lines 121-124).
ObOpen ==
    /\ Evaluating
    /\ NextOp.op = "obOpen"
    /\ htmlOutputBuffer' = [open |-> TRUE, value |-> <<>>]
    /\ stack' = SetTop(Done(Top))
    /\ UNCHANGED <<constants, currentBuffer, currentContext, cwd,
                   initialConstants, rootDir, files, unreadable, textVars, iterVars, serialVars, optionsContext, status>>

\* #dollar.obClose (lines 117-120); the script assigns what it returns.
ObCloseResult == Trim(JoinDefault(htmlOutputBuffer.value))
ObClose ==
    /\ Evaluating
    /\ NextOp.op = "obClose"
    /\ htmlOutputBuffer' = [htmlOutputBuffer EXCEPT !.open = FALSE]
    /\ stack' = SetTop(Bind(Done(Top), NextOp.n, ObCloseResult))
    /\ UNCHANGED <<constants, currentBuffer, currentContext, cwd,
                   initialConstants, rootDir, files, unreadable, textVars, iterVars, serialVars, optionsContext, status>>

(***************************************************************************)
(* #include (lines 350-387) up to its call of #processFile.  When the      *)
(* conditional scope hides the call, or the reference does not resolve,    *)
(* the call returns at once; when the file cannot be read, #processFile    *)
(* catches the error and returns its message, which #include drops (lines  *)
(* 375, 385 and 741-761), so the call returns with the buffers as they     *)
(* were; otherwise the included document is processed by a new activation, *)
(* and EndInclude is the rest of the call.                                 *)
(***************************************************************************)
\* #include returning nothing after the error was echoed (line 363 left out).
IncludeReturningNothing ==
    /\ Evaluating
    /\ NextOp.op = "include"
    /\ NextOp.sc # "true"
    /\ LET resolvedPath == ResolvePath(NextOp.ref, cwd)
           includeError == ErrResolve(NextOp.ref.base)
       IN  IF ~Shown(NextOp) THEN
               /\ stack' = SetTop(Bind(Done(Top), NextOp.n, JsUndefined))
               /\ UNCHANGED <<currentBuffer, htmlOutputBuffer, cwd>>
           ELSE IF resolvedPath = NoPath THEN
               /\ currentBuffer' = PushBuffer(includeError)
               /\ htmlOutputBuffer' = PushOb(includeError)
               /\ stack' = SetTop(Bind(Wrote(Done(Top), includeError), NextOp.n, JsUndefined))
               /\ UNCHANGED cwd
           ELSE IF resolvedPath \in unreadable THEN
               /\ stack' = SetTop(Bind(Done(Top), NextOp.n,
                                       IF NextOp.b THEN <<>> ELSE JsUndefined))
               /\ UNCHANGED <<currentBuffer, htmlOutputBuffer, cwd>>
           ELSE
               /\ cwd' = Dirname(resolvedPath)
               /\ currentBuffer' = IF NextOp.b THEN <<>> ELSE currentBuffer
               /\ stack' = Append(stack, NewFrame(resolvedPath, NextOp.b, currentBuffer,
                                                cwd, Top.bound))
               /\ UNCHANGED htmlOutputBuffer
    /\ UNCHANGED <<constants, currentContext, initialConstants, rootDir, files, unreadable, textVars, iterVars, serialVars, optionsContext, status>>

Include ==
    /\ Evaluating
    /\ NextOp.op = "include"
    /\ NextOp.sc # "true"
    /\ LET resolvedPath == ResolvePath(NextOp.ref, cwd)
           includeError == ErrResolve(NextOp.ref.base)
       IN  IF ~Shown(NextOp) THEN
               /\ stack' = SetTop(Bind(Done(Top), NextOp.n, JsUndefined))
               /\ UNCHANGED <<currentBuffer, htmlOutputBuffer, cwd>>
           ELSE IF resolvedPath = NoPath THEN
               /\ currentBuffer' = PushBuffer(includeError)
               /\ htmlOutputBuffer' = PushOb(includeError)
               /\ stack' = SetTop(Bind(Wrote(Done(Top), includeError), NextOp.n, includeError))
               /\ UNCHANGED cwd
           ELSE IF resolvedPath \in unreadable THEN
               /\ stack' = SetTop(Bind(Done(Top), NextOp.n,
                                       IF NextOp.b THEN <<>> ELSE JsUndefined))
               /\ UNCHANGED <<currentBuffer, htmlOutputBuffer, cwd>>
           ELSE
               /\ cwd' = Dirname(resolvedPath)
               /\ currentBuffer' = IF NextOp.b THEN <<>> ELSE currentBuffer
               /\ stack' = Append(stack, NewFrame(resolvedPath, NextOp.b, currentBuffer,
                                                cwd, Top.bound))
               /\ UNCHANGED htmlOutputBuffer
    /\ UNCHANGED <<constants, currentContext, initialConstants, rootDir, files, unreadable, textVars, iterVars, serialVars, optionsContext, status>>

(***************************************************************************)
(* #processTemplate, lines 841-851: after the last script block the        *)
(* unclosed-conditional error and the remaining markup are written.        *)
(***************************************************************************)
Region(kind, i) == IF kind = "html" THEN Html(i) ELSE IF kind = "ws" THEN <<Ws>> ELSE <<>>

AfterUnclosed(f) ==
    IF f.conditionalBlockOpen THEN Append(currentBuffer, ErrUnclosed) ELSE currentBuffer

TailBuffer(f, remainingHtml) ==
    IF htmlOutputBuffer.open THEN AfterUnclosed(f) ELSE Append(AfterUnclosed(f), remainingHtml)

TailFrame(f, kind) ==
    LET g == IF f.conditionalBlockOpen THEN Wrote(f, ErrUnclosed) ELSE f
    IN  [Wrote(g, Region(kind, f.nblocks + 1)) EXCEPT
            !.trail = Track(@, Event(kind, f.nblocks + 1, f.addBlockContentToBuffer))]

\* The end of the outermost document: #processFile returns to process (line 724).
EndProcess(regions) ==
    /\ Running
    /\ Len(stack) = 1
    /\ ~Top.inBlock
    /\ \E kind \in regions :
        /\ currentBuffer' = TailBuffer(Top, Region(kind, Top.nblocks + 1))
        /\ htmlOutputBuffer' = PushOb(Region(kind, Top.nblocks + 1))
        /\ stack' = SetTop(TailFrame(Top, kind))
    /\ status' = "done"
    /\ UNCHANGED <<constants, currentContext, cwd, initialConstants, rootDir, files, unreadable, textVars, iterVars, serialVars, optionsContext>>

\* #include without the restoration of #cwd (lines 378 and 385 left out).
EndIncludeKeepingCwd(regions) ==
    /\ Running
    /\ Len(stack) > 1
    /\ ~Top.inBlock
    /\ \E kind \in regions :
        LET child == TailFrame(Top, kind)
            buffer == TailBuffer(Top, Region(kind, Top.nblocks + 1))
            caller == stack[Len(stack) - 1]
            call == Head(caller.ops)
            result == IF child.assignMode THEN JoinEmpty(buffer) ELSE JsUndefined
            after == IF child.assignMode THEN child.prevBuffer ELSE buffer
            resumed == [Bind([Done(caller) EXCEPT !.bound = child.bound], call.n, result) EXCEPT
                          !.wrote = IF child.assignMode THEN @ ELSE @ \o child.wrote,
                          !.lastInclude = [called |-> TRUE,
                                           assignMode |-> child.assignMode,
                                           result |-> result,
                                           wrote |-> child.wrote,
                                           before |-> child.prevBuffer,
                                           after |-> after]]
        IN  /\ currentBuffer' = after
            /\ htmlOutputBuffer' = PushOb(Region(kind, Top.nblocks + 1))
            /\ cwd' = cwd
            /\ stack' = Append(SubSeq(stack, 1, Len(stack) - 2), resumed)
    /\ UNCHANGED <<constants, currentContext, initialConstants, rootDir, files, unreadable, textVars, iterVars, serialVars, optionsContext, status>>

\* The end of an included document: #processFile returns to #include (lines 375-386).
EndInclude(regions) ==
    /\ Running
    /\ Len(stack) > 1
    /\ ~Top.inBlock
    /\ \E kind \in regions :
        LET child == TailFrame(Top, kind)
            buffer == TailBuffer(Top, Region(kind, Top.nblocks + 1))
            caller == stack[Len(stack) - 1]
            call == Head(caller.ops)
            result == IF child.assignMode THEN JoinEmpty(buffer) ELSE JsUndefined
            after == IF child.assignMode THEN child.prevBuffer ELSE buffer
            resumed == [Bind([Done(caller) EXCEPT !.bound = child.bound], call.n, result) EXCEPT
                          !.wrote = IF child.assignMode THEN @ ELSE @ \o child.wrote,
                          !.lastInclude = [called |-> TRUE,
                                           assignMode |-> child.assignMode,
                                           result |-> result,
                                           wrote |-> child.wrote,
                                           before |-> child.prevBuffer,
                                           after |-> after]]
        IN  /\ currentBuffer' = after
            /\ htmlOutputBuffer' = PushOb(Region(kind, Top.nblocks + 1))
            /\ cwd' = child.previousCwd
            /\ stack' = Append(SubSeq(stack, 1, Len(stack) - 2), resumed)
    /\ UNCHANGED <<constants, currentContext, initialConstants, rootDir, files, unreadable, textVars, iterVars, serialVars, optionsContext, status>>

(***************************************************************************)
(* Lines 832-835: the evaluation of the block throws; the error is pushed  *)
(* on the current buffer and the loop goes on after the block.  The calls  *)
(* that throw: a conditional call without its scope argument, an include   *)
(* whose scope argument is the literal true, a call of a non-function.     *)
(***************************************************************************)
Throws(op) ==
    \/ op.op \in {"if", "elseif", "else", "end"} /\ op.sc # "scope"
    \/ op.op = "include" /\ op.sc = "true"
    \/ op.op = "echoCall" /\ ~IsFn(Top.env[op.n])

Message(op) ==
    IF op.op = "include" THEN "conditionalScope.show is not a function"
    ELSE IF op.op = "echoCall" THEN "not a function"
    ELSE "Cannot read properties of undefined (reading 'block')"

\* The catch without its push (line 834 left out).
EvaluationErrorSilent ==
    /\ Evaluating
    /\ Throws(NextOp)
    /\ stack' = SetTop([Top EXCEPT !.ops = <<>>, !.inBlock = FALSE])
    /\ UNCHANGED <<constants, currentBuffer, currentContext, cwd, htmlOutputBuffer,
                   initialConstants, rootDir, files, unreadable, textVars, iterVars, serialVars, optionsContext, status>>

EvaluationError ==
    /\ Evaluating
    /\ Throws(NextOp)
    /\ currentBuffer' = Append(currentBuffer, ErrThrown(Message(NextOp)))
    /\ stack' = SetTop([Wrote(Top, ErrThrown(Message(NextOp))) EXCEPT
                            !.ops = <<>>, !.inBlock = FALSE])
    /\ UNCHANGED <<constants, currentContext, cwd, htmlOutputBuffer,
                   initialConstants, rootDir, files, unreadable, textVars, iterVars, serialVars, optionsContext, status>>

(***************************************************************************)
(* The statements the specifications draw script blocks from.              *)
(***************************************************************************)
Stmt(k, n, v, b, ref) == <<Line(k, n, v, b, ref)>>
Literal == <<"e">>

AssignStmts(names, vals) == {Stmt("assign", n, v, FALSE, NoRef) : n \in names, v \in vals}
DeclStmts(names, vals) == {Stmt("decl", n, v, FALSE, NoRef) : n \in names, v \in vals}
DefineStmts(names, vals) == {Stmt("define", n, v, FALSE, NoRef) : n \in names, v \in vals}
ContextStmts(names, vals) == {Stmt("context", n, v, FALSE, NoRef) : n \in names, v \in vals}
EchoStmts(names) == {Stmt("echo", n, Literal, FALSE, NoRef) : n \in names}
CondStmts ==
    {Stmt(k, None, <<>>, b, NoRef) : k \in {"if", "elseif"}, b \in BOOLEAN}
    \cup {Stmt(k, None, <<>>, FALSE, NoRef) : k \in {"else", "end"}}
ObOpenStmts == {Stmt("obOpen", None, <<>>, FALSE, NoRef)}
ObCloseStmts(names) == {Stmt(k, n, <<>>, FALSE, NoRef) : k \in {"declOb", "assignOb"}, n \in names}
IncludeStmts(names, refs) ==
    {Stmt("include", None, <<>>, FALSE, r) : r \in refs}
    \cup {Stmt(k, n, <<>>, FALSE, r) :
            k \in {"declInc", "assignInc", "declIncScoped"}, n \in names, r \in refs}
\* A function of one line, or of three: the opening line, the return, the closing line.
FunctionStmts(names, vals) ==
    {Stmt(k, n, v, FALSE, NoRef) : k \in {"arrow1", "func1"}, n \in names, v \in vals}
    \cup {<<Line("arrowOpen", n, v, FALSE, NoRef), Line("funcRet", n, v, FALSE, NoRef),
            Line("funcClose", n, v, TRUE, NoRef)>> : n \in names, v \in vals}
    \cup {<<Line("funcOpen", n, v, FALSE, NoRef), Line("funcRet", n, v, FALSE, NoRef),
            Line("funcClose", n, v, FALSE, NoRef)>> : n \in names, v \in vals}
EchoCallStmts(names) == {Stmt("echoCall", n, <<>>, FALSE, NoRef) : n \in names}

(***************************************************************************)
(* SpecCond: documents of conditional calls and echoes, one statement in   *)
(* each script block, markup before every block.                           *)
(***************************************************************************)
CondLines == CondStmts \cup {Stmt("echo", None, Literal, FALSE, NoRef),
                             Stmt("echoIn", None, Literal, FALSE, NoRef)}

InitCond ==
    /\ Init
    /\ initialConstants = EmptyMap
    /\ rootDir = RootDir
    /\ files = {}
    /\ unreadable = {}
    /\ TextIdle

NextCond ==
    \/ Process(EmptyMap, RootDir)
    \/ BeginBlock(CondLines, CondMaxBlocks, {"html"})
    \/ EndBlock
    \/ Echo
    \/ If
    \/ Elseif
    \/ Else
    \/ End
    \/ EndProcess({"html"})

SpecCond == InitCond /\ [][NextCond]_vars

(***************************************************************************)
(* Spec: documents that declare, assign and echo a variable and capture    *)
(* output with obOpen and obClose.                                         *)
(***************************************************************************)
VarLines ==
    AssignStmts({"x"}, Vals) \cup DeclStmts({"x"}, {<<"1">>}) \cup ObCloseStmts({"x"})
    \cup EchoStmts({"x", None}) \cup ObOpenStmts

InitVars ==
    /\ Init
    /\ initialConstants = EmptyMap
    /\ rootDir = RootDir
    /\ files = {}
    /\ unreadable = {}
    /\ TextIdle

Next ==
    \/ Process(EmptyMap, RootDir)
    \/ BeginBlock(StmtSeqs(VarLines, MaxStmts), MaxBlocks, {"html", "ws", "empty"})
    \/ EndBlock
    \/ Assign
    \/ Context
    \/ Echo
    \/ ObOpen
    \/ ObClose
    \/ EndProcess({"html", "ws", "empty"})

Spec == InitVars /\ [][Next]_vars

(***************************************************************************)
(* SpecDefine: documents that define, assign, declare, set through context *)
(* and echo the name K, one statement in each script block.                *)
(***************************************************************************)
DefineLines ==
    DefineStmts({"K"}, Vals) \cup ContextStmts({"K"}, {<<"2">>})
    \cup AssignStmts({"K"}, {<<"2">>}) \cup DeclStmts({"K"}, {<<"2">>})
    \cup EchoStmts({"K"}) \cup ObOpenStmts

InitDefine ==
    /\ Init
    /\ rootDir = RootDir
    /\ files = {}
    /\ unreadable = {}
    /\ TextIdle

NextDefine ==
    \/ Process(EmptyMap, RootDir)
    \/ BeginBlock(DefineLines, DefineMaxBlocks, {"html"})
    \/ EndBlock
    \/ Assign
    \/ Context
    \/ Define
    \/ Echo
    \/ ObOpen
    \/ EndProcess({"html"})

SpecDefine == InitDefine /\ [][NextDefine]_vars

(***************************************************************************)
(* SpecInclude: a document of one script block that includes a file in     *)
(* each of the four ways, echoes and opens the output buffer; the included *)
(* file has at most one script block of one statement.                     *)
(***************************************************************************)
IncludeLines ==
    IncludeStmts({"x"}, {[slash |-> FALSE, base |-> "a"]})
    \cup EchoStmts({None}) \cup ObOpenStmts

IncludeBlocks ==
    IF Len(stack) = 1 THEN StmtSeqs(IncludeLines, MaxStmts)
    ELSE EchoStmts({None}) \cup ObOpenStmts

InitInclude ==
    /\ Init
    /\ initialConstants = EmptyMap
    /\ rootDir = RootDir
    /\ files \in {{}, {PathResolve(RootDir, "a")}}
    /\ unreadable = {}
    /\ TextIdle

NextInclude ==
    \/ Process(EmptyMap, RootDir)
    \/ BeginBlock(IncludeBlocks, IncludeMaxBlocks, {"html", "empty"})
    \/ EndBlock
    \/ Context
    \/ Echo
    \/ ObOpen
    \/ Include
    \/ EndInclude({"html", "empty"})
    \/ EvaluationError
    \/ EndProcess({"html", "empty"})

SpecInclude == InitInclude /\ [][NextInclude]_vars

(***************************************************************************)
(* SpecFunction: documents that define the function f in each of the four  *)
(* ways, call it, and assign and echo the variable x.                      *)
(***************************************************************************)
FunctionLines ==
    FunctionStmts({"f"}, {<<"1">>}) \cup EchoCallStmts({"f"})
    \cup AssignStmts({"x"}, {<<"1">>}) \cup EchoStmts({"x"})

InitFunction ==
    /\ Init
    /\ initialConstants = EmptyMap
    /\ rootDir = RootDir
    /\ files = {}
    /\ unreadable = {}
    /\ TextIdle

NextFunction ==
    \/ Process(EmptyMap, RootDir)
    \/ BeginBlock(StmtSeqs(FunctionLines, MaxStmts), MaxBlocks, {"html"})
    \/ EndBlock
    \/ Assign
    \/ Context
    \/ Echo
    \/ EvaluationError
    \/ EndProcess({"html"})

SpecFunction == InitFunction /\ [][NextFunction]_vars

(***************************************************************************)
(* SpecError: documents whose script blocks assign or echo and then call   *)
(* f, which is a function only after the block that defines it.            *)
(***************************************************************************)
ErrorBlocks ==
    {st \o c : st \in AssignStmts({"x"}, {<<"1">>}) \cup EchoStmts({None}) \cup ObOpenStmts \cup {<<>>},
               c \in EchoCallStmts({"f"})}
    \cup EchoStmts({"x"})
    \cup {Stmt("arrow1", "f", <<"1">>, FALSE, NoRef)}

InitError ==
    /\ Init
    /\ initialConstants = EmptyMap
    /\ rootDir = RootDir
    /\ files = {}
    /\ unreadable = {}
    /\ TextIdle

NextError ==
    \/ Process(EmptyMap, RootDir)
    \/ BeginBlock(ErrorBlocks, ErrorMaxBlocks, {"html"})
    \/ EndBlock
    \/ Assign
    \/ Context
    \/ Echo
    \/ ObOpen
    \/ EvaluationError
    \/ EndProcess({"html"})

SpecError == InitError /\ [][NextError]_vars

(***************************************************************************)
(* SpecMissing: documents whose script blocks include a file, by a plain   *)
(* call or binding the result, and then echo; the file may be missing.     *)
(***************************************************************************)
MissingRef == [slash |-> FALSE, base |-> "a"]
MissingBlocks ==
    IF Len(stack) = 1 THEN
        {<<Line("include", None, <<>>, FALSE, MissingRef), Line("echo", None, Literal, FALSE, NoRef)>>,
         <<Line("assignInc", "x", <<>>, FALSE, MissingRef), Line("echo", "x", Literal, FALSE, NoRef)>>,
         <<Line("declIncScoped", "x", <<>>, FALSE, MissingRef), Line("echo", "x", Literal, FALSE, NoRef)>>}
        \cup ObOpenStmts
    ELSE EchoStmts({None})

InitMissing ==
    /\ Init
    /\ initialConstants = EmptyMap
    /\ rootDir = RootDir
    /\ files \in {{}, {PathResolve(RootDir, "a")}}
    /\ unreadable = {}
    /\ TextIdle

NextMissing ==
    \/ Process(EmptyMap, RootDir)
    \/ BeginBlock(MissingBlocks, MissingMaxBlocks, {"html"})
    \/ EndBlock
    \/ Context
    \/ Echo
    \/ ObOpen
    \/ Include
    \/ EndInclude({"html"})
    \/ EndProcess({"html"})

SpecMissing == InitMissing /\ [][NextMissing]_vars

(***************************************************************************)
(* SpecUnreadable: the documents of SpecMissing, given as code or as the   *)
(* path of the file a; the file exists and may be unreadable.              *)
(***************************************************************************)
InitUnreadable ==
    /\ Init
    /\ initialConstants = EmptyMap
    /\ rootDir = RootDir
    /\ files = {PathResolve(RootDir, "a")}
    /\ unreadable \in SUBSET files
    /\ TextIdle

NextUnreadable ==
    \/ Process(EmptyMap, RootDir)
    \/ ProcessPath(EmptyMap, PathResolve(RootDir, "a"))
    \/ BeginBlock(MissingBlocks, MissingMaxBlocks, {"html"})
    \/ EndBlock
    \/ Context
    \/ Echo
    \/ ObOpen
    \/ Include
    \/ EndInclude({"html"})
    \/ EndProcess({"html"})

SpecUnreadable == InitUnreadable /\ [][NextUnreadable]_vars

(***************************************************************************)
(* Properties.                                                             *)
(***************************************************************************)
Occurrences(arr, piece) == Cardinality({i \in DOMAIN arr : arr[i] = piece})
IsHtml(piece) == Len(piece) > 0 /\ piece[1] = "html"
LastIsHtml(arr) == Len(arr) > 0 /\ IsHtml(arr[Len(arr)])

\* A step that begins the evaluation of the next script block of a document.
BlockBegins ==
    /\ Running
    /\ ~Top.inBlock
    /\ status' = "running"
    /\ Len(stack') = Len(stack)
    /\ Top'.inBlock
\* The block just begun reads the name n in its first statement, kind op.
ReadsFirst(f, op, n) == f.ops # <<>> /\ Head(f.ops).op = op /\ Head(f.ops).n = n

\* C1: once a script block has bound a variable by a top-level declaration or
\* assignment, every script block that begins later in the process call and
\* reads the variable observes the value it was last bound to.
C1_ContextCarryover ==
    [][BlockBegins =>
        \A n \in Names :
            (Has(Top.bound, n) /\ ReadsFirst(Top', "echo", n))
                => Top'.env[n] = Top.bound[n]]_vars

\* The outermost document was one conditional chain and process has finished it.
ChainDone == status = "done" /\ Len(stack[1].trail) = Len(ChainShape)
\* The region after the first call whose predicate holds; the else region if none does.
Winner(a, b, c) == IF a THEN 2 ELSE IF b THEN 3 ELSE IF c THEN 4 ELSE 5

\* C2: in a document whose script blocks call if(a), elseif(b), elseif(c), else(),
\* end() in that order with markup after each call, exactly one of the four
\* regions after the first four calls is in the buffer, once: the one after the
\* first call whose predicate is true, or the else region when none is; and the
\* markup after end() is in the buffer.
C2_ConditionalExclusivity ==
    ChainDone =>
        LET t == stack[1].trail
        IN  /\ \A i \in 2..5 :
                 Occurrences(currentBuffer, Html(i)) =
                    IF i = Winner(t[2].b, t[4].b, t[6].b) THEN 1 ELSE 0
            /\ Occurrences(currentBuffer, Html(6)) = 1

\* A chain whose if is false and whose two elseif are both true has been processed.
C2_Witness ==
    /\ ChainDone
    /\ ~stack[1].trail[2].b
    /\ stack[1].trail[4].b
    /\ stack[1].trail[6].b

\* C3: once a constant k is bound, every evaluation of k in a script block
\* yields the value it was bound to, whatever assignments, declarations,
\* define calls or context calls were made on k before.
C3_ConstantInvariance ==
    (Evaluating /\ NextOp.op = "echo" /\ NextOp.n # None /\ Has(constants, NextOp.n))
        => EchoArgument(NextOp) = constants[NextOp.n]

\* C4: an include call that is the initializer of a declaration or the
\* right-hand side of an assignment, made while the scope shows and with a
\* reference that resolves, starts the included file in capture mode.
C4_IncludeInAssignmentCaptures ==
    [][(/\ Evaluating
        /\ NextOp.op = "include"
        /\ NextOp.n # None
        /\ Top.addBlockContentToBuffer
        /\ ResolvePath(NextOp.ref, cwd) # NoPath)
       => (Len(stack') = Len(stack) + 1 /\ Top'.assignMode)]_vars

\* C5: when a capture-mode include has returned, the current buffer is what it
\* was before the call and the returned string is the concatenation, in
\* order, of everything written while the included file was processed.
C5_CaptureIsolation ==
    (stack # <<>> /\ Top.lastInclude.called /\ Top.lastInclude.assignMode)
        => /\ Top.lastInclude.after = Top.lastInclude.before
           /\ Top.lastInclude.result = JoinEmpty(Top.lastInclude.wrote)

\* C6: obClose closes the output buffer and returns the concatenation, in
\* order, of the pieces written to it since the last obOpen, trimmed.
C6_ObCloseReturnsConcatenation ==
    [][(Evaluating /\ NextOp.op = "obClose")
       => /\ ~htmlOutputBuffer'.open
          /\ Top'.env[NextOp.n] = Trim(JoinEmpty(htmlOutputBuffer.value))]_vars

DefinesFunction(lines, n) ==
    \E i \in DOMAIN lines :
        lines[i].k \in {"arrow1", "arrowOpen", "func1", "funcOpen"} /\ lines[i].n = n
EndsWithAssignment(lines) == lines # <<>> /\ lines[Len(lines)].k = "assign"

\* C7: when a block that defines a function has run, the context holds the
\* function under its name; a line that follows a function definition is
\* rewritten as it would be elsewhere (an assignment is followed by its
\* context call); and a later block that calls the name finds the function.
C7_FunctionsCarryOver ==
    [][/\ (Running /\ Top.inBlock /\ Top.ops = <<>>)
            => \A n \in Names :
                 DefinesFunction(Top.code, n) => currentContext[n] = Top.bound[n]
       /\ BlockBegins
            => /\ EndsWithAssignment(Top'.code)
                    => (/\ Top'.ops # <<>>
                        /\ Top'.ops[Len(Top'.ops)] = CtxOp(Top'.code[Len(Top'.code)].n))
               /\ \A n \in Names :
                    (/\ IsFn(Top.bound[n])
                     /\ ~DefinesFunction(Top'.code, n)
                     /\ ReadsFirst(Top', "echoCall", n))
                        => Top'.env[n] = Top.bound[n]]_vars

\* C8: an echo or include call made while show() is false changes neither buffer,
\* nor the context, the constants or cwd.
C8_HiddenCallsHaveNoEffect ==
    [][(/\ Evaluating
        /\ NextOp.op \in {"echo", "include"}
        /\ ~Throws(NextOp)
        /\ ~Top.addBlockContentToBuffer)
       => UNCHANGED <<currentBuffer, htmlOutputBuffer, currentContext, constants, cwd>>]_vars

\* C9: literal markup, before a script block or after the last one, is appended
\* to the current buffer only if show() is true when the driver reaches it.
C9_MarkupOnlyWhenShown ==
    [][(/\ Running
        /\ Len(stack') = Len(stack)
        /\ Len(currentBuffer') > Len(currentBuffer)
        /\ LastIsHtml(currentBuffer'))
       => Top.addBlockContentToBuffer]_vars

IsEnvelope(piece) == Len(piece) >= 2 /\ piece[1] = "<< Error: " /\ piece[Len(piece)] = " >>"
\* Exactly one piece, an error envelope, is written: to the output buffer when
\* it is open, else to the current buffer.
EmitsEnvelope ==
    IF htmlOutputBuffer.open THEN
        /\ Len(htmlOutputBuffer'.value) = Len(htmlOutputBuffer.value) + 1
        /\ SubSeq(htmlOutputBuffer'.value, 1, Len(htmlOutputBuffer.value)) = htmlOutputBuffer.value
        /\ IsEnvelope(htmlOutputBuffer'.value[Len(htmlOutputBuffer'.value)])
        /\ htmlOutputBuffer'.open
        /\ UNCHANGED currentBuffer
    ELSE
        /\ Len(currentBuffer') = Len(currentBuffer) + 1
        /\ SubSeq(currentBuffer', 1, Len(currentBuffer)) = currentBuffer
        /\ IsEnvelope(currentBuffer'[Len(currentBuffer')])
        /\ UNCHANGED htmlOutputBuffer
EmitsNothing == UNCHANGED <<currentBuffer, htmlOutputBuffer>>

\* C10: define(name, value) does one of four things: name is a context
\* variable: an error envelope is emitted, context and constants unchanged;
\* name is a constant with the same value: nothing emitted, nothing changed;
\* name is a constant with another value: an error envelope is emitted and the
\* constants are unchanged; otherwise name becomes a constant with the value
\* and nothing is emitted.
C10_DefineOutcomes ==
    [][(Evaluating /\ NextOp.op = "define")
       => LET name == NextOp.n
              value == NextOp.v
          IN  IF Has(currentContext, name)
              THEN EmitsEnvelope /\ UNCHANGED <<currentContext, constants>>
              ELSE IF Has(constants, name) /\ constants[name] = value
              THEN EmitsNothing /\ UNCHANGED <<currentContext, constants>>
              ELSE IF Has(constants, name)
              THEN EmitsEnvelope /\ UNCHANGED <<currentContext, constants>>
              ELSE /\ constants' = [constants EXCEPT ![name] = value]
                   /\ EmitsNothing
                   /\ UNCHANGED currentContext]_vars

\* A document defined K, made K a context variable and called define on K again.
C10_Witness ==
    /\ status = "done"
    /\ initialConstants = EmptyMap
    /\ Has(constants, "K")
    /\ Has(currentContext, "K")
    /\ \E i \in DOMAIN currentBuffer : currentBuffer[i] = ErrVariableDeclared("K")

Emits(piece) ==
    IF htmlOutputBuffer.open
    THEN /\ htmlOutputBuffer' = [htmlOutputBuffer EXCEPT !.value = Append(@, piece)]
         /\ UNCHANGED currentBuffer
    ELSE /\ currentBuffer' = Append(currentBuffer, piece)
         /\ UNCHANGED htmlOutputBuffer

AppendsEnvelope ==
    /\ Len(currentBuffer') = Len(currentBuffer) + 1
    /\ IsEnvelope(currentBuffer'[Len(currentBuffer')])

\* C13: when the file of a document cannot be read, an error envelope reaches
\* the current buffer and the caller goes on: for the input path of process,
\* the buffer process ends with holds the envelope; for an include whose
\* reference resolved, the envelope is appended to the current buffer (in
\* capture mode, to the captured text) and the block continues with its next
\* statement, no activation being started for the file.
C13_FileReadError ==
    [][/\ (status = "idle" /\ status' = "done")
            => (currentBuffer' # <<>> /\ IsEnvelope(currentBuffer'[1]))
       /\ (/\ Evaluating
           /\ NextOp.op = "include"
           /\ ~Throws(NextOp)
           /\ Shown(NextOp)
           /\ ResolvePath(NextOp.ref, cwd) \in unreadable)
            => /\ IF NextOp.b THEN IsEnvelope(Top'.env[NextOp.n]) ELSE AppendsEnvelope
               /\ Len(stack') = Len(stack)
               /\ Top'.ops = Tail(Top.ops)]_vars

\* C14: when a document ends, the unclosed-conditional envelope is appended
\* once if a conditional started by if has not been closed by end, and not at
\* all if every conditional was closed.
C14_UnclosedConditional ==
    [][(Running /\ Len(stack) = 1 /\ status' = "done")
       => Occurrences(currentBuffer', ErrUnclosed) =
            Occurrences(currentBuffer, ErrUnclosed) + (IF Top.pending THEN 1 ELSE 0)]_vars

(***************************************************************************)
(* The markup tokenizer (simple-html-parser.js).  A text is a sequence of  *)
(* pieces: a piece is one character that is not a word character, or a run *)
(* of word characters (\w) that the text never splits.  A tree is the      *)
(* sequence of its nodes in creation order, each with the index of its     *)
(* parent (0 is the root); appendChild pushes, so the children of a node   *)
(* are the nodes that name it as parent, in index order.                   *)
(***************************************************************************)
Lf == "LF"                                  \* the newline character
Quote == "\""
Apos == "'"
Spaces == {Ws, Lf}
NonWord == {"<", ">", "/", "!", "-", "=", ":", ".", "(", ")", "*", ",", "#", "[", "]", Quote, Apos} \cup Spaces
IsWord(c) == c \notin NonWord               \* \w
EMPVAL == <<"__EMPVAL__">>
SpecialTags == {<<"jhp">>, <<"script">>, <<"s_">>}   \* the jhpTags the engine configures

\* String.prototype.indexOf(pat, from), positions counted from 1; 0 is -1.
IndexOf(s, pat, from) ==
    LET hits == {i \in from..(Len(s) - Len(pat) + 1) : SubSeq(s, i, i + Len(pat) - 1) = pat}
    IN IF hits = {} THEN 0 ELSE CHOOSE i \in hits : \A j \in hits : i <= j

\* String.prototype.substring(a, b) on 0-based offsets: the arguments are
\* swapped when a > b.
Substring(s, a, b) ==
    LET lo == IF a <= b THEN a ELSE b
        hi == IF a <= b THEN b ELSE a
    IN SubSeq(s, lo + 1, IF hi > Len(s) THEN Len(s) ELSE hi)

\* The end of the longest run of pieces satisfying a class, starting at i.
RECURSIVE RunEnd(_, _, _)
RunEnd(s, i, words) ==
    IF i <= Len(s) /\ (IF words THEN IsWord(s[i]) ELSE s[i] \notin Spaces)
    THEN RunEnd(s, i + 1, words) ELSE i - 1

\* tagContent.split(/\s+/)[0]
TagName(tagContent) ==
    LET sp == {i \in DOMAIN tagContent : tagContent[i] \in Spaces}
    IN IF sp = {} THEN tagContent
       ELSE SubSeq(tagContent, 1, (CHOOSE i \in sp : \A j \in sp : i <= j) - 1)

\* attributes[name] = value on an object: a known key keeps its place.
SetAttribute(attrs, name, value) ==
    IF \E i \in DOMAIN attrs : attrs[i].name = name
    THEN [i \in DOMAIN attrs |-> IF attrs[i].name = name THEN [name |-> name, value |-> value] ELSE attrs[i]]
    ELSE Append(attrs, [name |-> name, value |-> value])

\* One match of /(\w+)(?:=(?:"([^"]*)"|'([^']*)'|(\S+)))?/ at the name that
\* ends at k: the value the code stores and the index the match ends at.
AttrMatch(s, k) ==
    LET quoted(q) ==
            IF k + 2 <= Len(s) /\ s[k + 2] = q THEN IndexOf(s, <<q>>, k + 3) ELSE 0
        bare == IF k + 2 <= Len(s) THEN RunEnd(s, k + 2, FALSE) ELSE 0
        orEmpty(v) == IF v = <<>> THEN EMPVAL ELSE v
    IN IF ~(k + 1 <= Len(s) /\ s[k + 1] = "=") THEN [value |-> EMPVAL, end |-> k]
       ELSE IF quoted(Quote) # 0
            THEN [value |-> orEmpty(SubSeq(s, k + 3, quoted(Quote) - 1)), end |-> quoted(Quote)]
       ELSE IF quoted(Apos) # 0
            THEN [value |-> orEmpty(SubSeq(s, k + 3, quoted(Apos) - 1)), end |-> quoted(Apos)]
       ELSE IF bare >= k + 2
            THEN [value |-> SubSeq(s, k + 2, bare), end |-> bare]
       ELSE [value |-> EMPVAL, end |-> k]

\* The while loop over attrPattern.exec(attrStr).
RECURSIVE ParseAttributes(_, _, _)
ParseAttributes(s, from, attrs) ==
    LET starts == {i \in from..Len(s) : IsWord(s[i])}
    IN IF starts = {} THEN attrs
       ELSE LET j == CHOOSE i \in starts : \A h \in starts : i <= h
                k == RunEnd(s, j, TRUE)
                m == AttrMatch(s, k)
            IN ParseAttributes(s, m.end + 1, SetAttribute(attrs, SubSeq(s, j, k), m.value))

Node(type, name, attributes, parent, content, commentType, scriptBlock) ==
    [type |-> type, name |-> name, attributes |-> attributes, parent |-> parent,
     content |-> content, commentType |-> commentType, scriptBlock |-> scriptBlock]
TextNode(content, parent) == Node("text", <<>>, <<>>, parent, content, "", FALSE)
CommentNode(content, flavour, parent) == Node("comment", <<>>, <<>>, parent, content, flavour, FALSE)

\* The body of a special tag: text runs and script comments, children of the
\* opening tag at index parent.
RECURSIVE ParseScriptContent(_, _, _, _)
ParseScriptContent(sc, position, parent, nodes) ==
    IF position > Len(sc) THEN nodes
    ELSE
    LET single == IndexOf(sc, <<"/", "/">>, position)
        multi == IndexOf(sc, <<"/", "*">>, position)
        isMulti == multi # 0 /\ (single = 0 \/ ~(single < multi))
        next == IF isMulti THEN multi ELSE single
        withText == IF next > position
                    THEN Append(nodes, TextNode(SubSeq(sc, position, next - 1), parent))
                    ELSE nodes
        close == IF isMulti THEN IndexOf(sc, <<"*", "/">>, next + 2)
                 ELSE IndexOf(sc, <<Lf>>, next)
        flavour == IF isMulti THEN "js-multi-line" ELSE "js-single-line"
    IN IF next = 0 THEN Append(nodes, TextNode(SubSeq(sc, position, Len(sc)), parent))
       ELSE IF close = 0
            THEN Append(withText, CommentNode(SubSeq(sc, next + 2, Len(sc)), flavour, parent))
       ELSE ParseScriptContent(sc, IF isMulti THEN close + 2 ELSE close + 1, parent,
                Append(withText, CommentNode(SubSeq(sc, next + 2, close - 1), flavour, parent)))

\* The opening tag a closing tag matches: the nearest tag-open of that name
\* on the parent chain of cur, or 0.
RECURSIVE MatchingOpen(_, _, _)
MatchingOpen(nodes, cur, tagName) ==
    IF cur = 0 THEN 0
    ELSE IF nodes[cur].type = "tag-open" /\ nodes[cur].name = tagName THEN cur
    ELSE MatchingOpen(nodes, nodes[cur].parent, tagName)

\* The while loop of parse: pos is the position in html, cur the current node.
RECURSIVE ParseFrom(_, _, _, _)
ParseFrom(html, pos, nodes, cur) ==
    IF pos > Len(html) THEN nodes
    ELSE IF pos + 3 <= Len(html) /\ SubSeq(html, pos, pos + 3) = <<"<", "!", "-", "-">> THEN
        LET commentEnd == IndexOf(html, <<"-", "-", ">">>, pos)
        IN IF commentEnd = 0 THEN ParseFrom(html, pos + 1, nodes, cur)
           ELSE ParseFrom(html, commentEnd + 3,
                    Append(nodes, CommentNode(Substring(html, pos + 3, commentEnd - 1), "html-comment", cur)),
                    cur)
    ELSE IF html[pos] = "<" /\ ~(pos + 1 <= Len(html) /\ html[pos + 1] = "/") THEN
        LET tagEnd == IndexOf(html, <<">">>, pos)
            tagContent == SubSeq(html, pos + 1, tagEnd - 1)
            tagName == TagName(tagContent)
            attributes == ParseAttributes(tagContent, Len(tagName) + 1, <<>>)
            special == tagName \in SpecialTags
            node == Node("tag-open", tagName, attributes, cur, <<>>, "", special)
            opened == Append(nodes, node)
            closeTag == <<"<", "/">> \o tagName \o <<">">>
            closeTagPos == IF special THEN IndexOf(html, closeTag, tagEnd) ELSE 0
        IN IF tagEnd = 0 THEN ParseFrom(html, pos + 1, nodes, cur)
           ELSE IF closeTagPos # 0
                THEN ParseFrom(html, closeTagPos + Len(closeTag),
                         Append(ParseScriptContent(SubSeq(html, tagEnd + 1, closeTagPos - 1), 1,
                                                   Len(opened), opened),
                                Node("tag-close", tagName, <<>>, cur, <<>>, "", TRUE)),
                         cur)
           ELSE ParseFrom(html, tagEnd + 1, opened, Len(opened))
    ELSE IF html[pos] = "<" THEN
        LET tagEnd == IndexOf(html, <<">">>, pos)
            tagName == SubSeq(html, pos + 2, tagEnd - 1)
            open == MatchingOpen(nodes, cur, tagName)
            up == IF open = 0 THEN cur ELSE nodes[open].parent
        IN IF tagEnd = 0 THEN ParseFrom(html, pos + 1, nodes, cur)
           ELSE ParseFrom(html, tagEnd + 1,
                    Append(nodes, Node("tag-close", tagName, <<>>, up, <<>>, "", FALSE)), up)
    ELSE
        LET nextTagPos == IndexOf(html, <<"<">>, pos)
            textEnd == IF nextTagPos = 0 THEN Len(html) + 1 ELSE nextTagPos
        IN ParseFrom(html, textEnd, Append(nodes, TextNode(SubSeq(html, pos, textEnd - 1), cur)), cur)

Parse(html) == ParseFrom(html, 1, <<>>, 0)

RECURSIVE GetNodeAttributesString(_)
GetNodeAttributesString(attrs) ==
    IF attrs = <<>> THEN <<>>
    ELSE (IF attrs[1].value = EMPVAL THEN <<Ws>> \o attrs[1].name
          ELSE <<Ws>> \o attrs[1].name \o <<"=", Quote>> \o attrs[1].value \o <<Quote>>)
         \o GetNodeAttributesString(Tail(attrs))

CommentHtml(n) ==
    IF n.commentType = "js-single-line" THEN <<"/", "/">> \o n.content
    ELSE IF n.commentType = "js-multi-line" THEN <<"/", "*">> \o n.content \o <<"*", "/">>
    ELSE <<"<", "!", "-", "-">> \o n.content \o <<"-", "-", ">">>

RECURSIVE ToHtml(_, _, _)
RECURSIVE InnerHtml(_, _, _, _)
\* node.toHtml(showComments) for the node at index i.
ToHtml(tree, i, showComments) ==
    LET n == tree[i]
    IN IF n.type = "text" THEN n.content
       ELSE IF n.type = "comment" THEN (IF showComments THEN CommentHtml(n) ELSE <<>>)
       ELSE IF n.type = "tag-open"
            THEN <<"<">> \o n.name \o GetNodeAttributesString(n.attributes) \o <<">">>
                 \o InnerHtml(tree, i, i + 1, showComments)
       ELSE <<"<", "/">> \o n.name \o <<">">>
\* The loop over the children of the node at index parent (0: the root).
InnerHtml(tree, parent, from, showComments) ==
    IF from > Len(tree) THEN <<>>
    ELSE (IF tree[from].parent = parent THEN ToHtml(tree, from, showComments) ELSE <<>>)
         \o InnerHtml(tree, parent, from + 1, showComments)

RootToHtml(tree) == InnerHtml(tree, 0, 1, FALSE)     \* root.toHtml()
RootToString(tree) == InnerHtml(tree, 0, 1, TRUE)    \* root.toString()

(***************************************************************************)
(* The text process returns (lines 726-732): the current buffer joined,    *)
(* trimmed, parsed and serialized.  Chars spells a token of the buffers    *)
(* out in the pieces the tokenizer reads.                                  *)
(***************************************************************************)
RECURSIVE Spaced(_)
Spaced(words) ==
    IF Len(words) <= 1 THEN words ELSE <<words[1], Ws>> \o Spaced(Tail(words))

Chars(t) ==
    CASE t = "<< Error: " -> <<"<", "<", Ws, "Error", ":", Ws>>
      [] t = "<< Undefined: " -> <<"<", "<", Ws, "Undefined", ":", Ws>>
      [] t = " >>" -> <<Ws, ">", ">">>
      [] t = "Variable '" -> <<"Variable", Ws, Apos>>
      [] t = "' already declared, unable to declare as constant." ->
            <<Apos, Ws, "already", Ws, "declared", ",", Ws>>
            \o Spaced(<<"unable", "to", "declare", "as", "constant">>) \o <<".">>
      [] t = "Attempted to redeclare defined constant '" ->
            Spaced(<<"Attempted", "to", "redeclare", "defined", "constant">>) \o <<Ws, Apos>>
      [] t = "Attempt to redeclare defined constant '" ->
            Spaced(<<"Attempt", "to", "redeclare", "defined", "constant">>) \o <<Ws, Apos>>
      [] t = "'." -> <<Apos, ".">>
      [] t = "Unable to resolve include path '" ->
            Spaced(<<"Unable", "to", "resolve", "include", "path">>) \o <<Ws, Apos>>
      [] t = "Unclosed conditional block detected." ->
            Spaced(<<"Unclosed", "conditional", "block", "detected">>) \o <<".">>
      [] t = "conditionalScope.show is not a function" ->
            <<"conditionalScope", ".">> \o Spaced(<<"show", "is", "not", "a", "function">>)
      [] t = "not a function" -> Spaced(<<"not", "a", "function">>)
      [] t = "Cannot read properties of undefined (reading 'block')" ->
            Spaced(<<"Cannot", "read", "properties", "of", "undefined">>)
            \o <<Ws, "(", "reading", Ws, Apos, "block", Apos, ")">>
      [] OTHER -> <<t>>

RECURSIVE Text(_)
Text(tokens) == IF tokens = <<>> THEN <<>> ELSE Chars(tokens[1]) \o Text(Tail(tokens))

Returned == RootToHtml(Parse(Trim(Text(JoinEmpty(currentBuffer)))))

Contains(s, pat) == IndexOf(s, pat, 1) # 0
IsSentinel(piece) == Len(piece) >= 2 /\ piece[1] = "<< Undefined: " /\ piece[Len(piece)] = " >>"

\* C15: when a process call is done, every error envelope and every
\* undefined-identifier sentinel of the current buffer occurs, character for
\* character, in the text the call returns.
C15_EnvelopesSurvive ==
    status = "done"
    => \A i \in DOMAIN currentBuffer :
          (IsEnvelope(currentBuffer[i]) \/ IsSentinel(currentBuffer[i]))
          => Contains(Returned, Text(currentBuffer[i]))

(***************************************************************************)
(* The template scan at the level of text (#processFile, #processTemplate): *)
(* the document is parsed and serialized, the serialized text is scanned   *)
(* for script blocks, the markup between them is pushed, and the buffer is *)
(* parsed and serialized again.  The script bodies of this specification   *)
(* are expression statements: evaluating one writes nothing and leaves the *)
(* conditional scope alone, so the scan pushes every markup region.        *)
(***************************************************************************)
ScanMaxParts == 2     \* parts (text, script block, element) per document

OpenTag(tag) == <<"<">> \o tag \o <<">">>
CloseTag(tag) == <<"<", "/">> \o tag \o <<">">>

\* regex.exec(template) for /<(tags)>([\s\S]*?)<\/\1>/g from lastIndex: the
\* leftmost opening tag without attributes that a closing tag of the same
\* name follows, with the body up to the first such closing tag.
MatchAt(text, i) ==
    {[index |-> i, body |-> SubSeq(text, i + Len(OpenTag(tag)), c - 1), end |-> c + Len(CloseTag(tag)) - 1] :
        <<tag, c>> \in {tc \in SpecialTags \X (1..Len(text)) :
            /\ i + Len(OpenTag(tc[1])) - 1 <= Len(text)
            /\ SubSeq(text, i, i + Len(OpenTag(tc[1])) - 1) = OpenTag(tc[1])
            /\ tc[2] = IndexOf(text, CloseTag(tc[1]), i + Len(OpenTag(tc[1])))
            /\ tc[2] # 0}}

NoMatch == [index |-> 0, body |-> <<>>, end |-> 0]
RegexExec(text, from) ==
    LET starts == {i \in (from + 1)..Len(text) : MatchAt(text, i) # {}}
    IN IF starts = {} THEN NoMatch
       ELSE CHOOSE m \in MatchAt(text, CHOOSE i \in starts : \A j \in starts : i <= j) : TRUE

\* process(code) up to the call of #processTemplate: the code is parsed and
\* the tree serialized without its comments.
ProcessCode(code) ==
    /\ status = "idle"
    /\ status' = "running"
    /\ templateText' = code
    /\ template' = RootToHtml(Parse(code))
    /\ lastIndex' = 0
    /\ currentBuffer' = <<>>
    /\ evaluated' = <<>>
    /\ output' = <<>>
    /\ UNCHANGED <<constants, currentContext, cwd, htmlOutputBuffer, initialConstants, rootDir,
                   files, unreadable, iterVars, serialVars, optionsContext, stack, dom, selector, results, reference, resolved>>

\* One turn of the while loop: the markup before the match is pushed and the
\* body is evaluated.
ScriptMatch ==
    LET match == RegexExec(template, lastIndex)
    IN /\ status = "running"
       /\ stack = <<>>
       /\ match # NoMatch
       /\ currentBuffer' = Append(currentBuffer, SubSeq(template, lastIndex + 1, match.index - 1))
       /\ evaluated' = Append(evaluated, match.body)
       /\ lastIndex' = match.end
       /\ UNCHANGED <<constants, currentContext, cwd, htmlOutputBuffer, initialConstants, rootDir,
                      files, unreadable, iterVars, serialVars, optionsContext, stack, status, templateText, template, output,
                      dom, selector, results, reference, resolved>>

\* After the loop: the remaining markup is pushed, and process parses the
\* joined, trimmed buffer and returns its serialization.
RemainingHtml ==
    /\ status = "running"
    /\ stack = <<>>
    /\ RegexExec(template, lastIndex) = NoMatch
    /\ currentBuffer' = Append(currentBuffer, SubSeq(template, lastIndex + 1, Len(template)))
    /\ output' = RootToHtml(Parse(Trim(JoinEmpty(currentBuffer'))))
    /\ status' = "done"
    /\ UNCHANGED <<constants, currentContext, cwd, htmlOutputBuffer, initialConstants, rootDir,
                   files, unreadable, iterVars, serialVars, optionsContext, stack, templateText, template, lastIndex, evaluated,
                   dom, selector, results, reference, resolved>>

\* The documents of the scan: text, script blocks without attributes whose
\* body is the statement e, and script elements with an attribute whose
\* content is the statement m, with and without a comment.
Attributed(content) ==
    <<"<", "script", Ws, "type", "=", Quote, "module", Quote, ">">> \o content \o CloseTag(<<"script">>)
AttributedContents ==
    {<<"m">>, <<"m", "/", "/", "c">>, <<"m", "/", "*", "c", "*", "/">>, <<"m", "(", Quote, "http", ":", "/", "/", "h", Quote, ")">>}
ScanParts ==
    {<<"A">>, OpenTag(<<"script">>) \o <<"e">> \o CloseTag(<<"script">>),
     OpenTag(<<"s_">>) \o <<"e">> \o CloseTag(<<"s_">>)}
    \cup {Attributed(c) : c \in AttributedContents}
RECURSIVE Documents(_)
Documents(n) ==
    IF n = 0 THEN {<<>>} ELSE Documents(n - 1) \cup {d \o part : d \in Documents(n - 1), part \in ScanParts}

InitScan ==
    /\ constants = EmptyMap /\ initialConstants = EmptyMap /\ currentContext = EmptyMap
    /\ currentBuffer = <<>> /\ htmlOutputBuffer = [open |-> FALSE, value |-> <<>>]
    /\ cwd = RootDir /\ rootDir = RootDir /\ files = {} /\ unreadable = {}
    /\ stack = <<>> /\ status = "idle"
    /\ TextIdle

NextScan ==
    \/ \E code \in Documents(ScanMaxParts) : ProcessCode(code)
    \/ ScriptMatch
    \/ RemainingHtml

SpecScan == InitScan /\ [][NextScan]_vars

\* C16: when process is done, a script element with an attribute that the
\* document holds was not evaluated, and the returned text holds the element
\* with its content as the document has it.
C16_AttributedScriptIsMarkup ==
    status = "done"
    => \A c \in AttributedContents :
          Contains(templateText, Attributed(c))
          => /\ \A i \in DOMAIN evaluated : ~Contains(evaluated[i], <<"m">>)
             /\ Contains(output, Attributed(c))

(***************************************************************************)
(* #resolvePath as a function of the files that exist: the directories and *)
(* the references of the resolution, and its application.                  *)
(***************************************************************************)
ResolveBases == {"a", "b"}
ResolvePaths == [dir : Dirs \cup {FsRoot}, base : ResolveBases]
\* The references a, b, /a, /b, //a and //b.
References == [slash : BOOLEAN, base : ResolveBases] \cup [slash : {TRUE}, base : DOMAIN Rooted]

InitResolve ==
    /\ constants = EmptyMap /\ initialConstants = EmptyMap /\ currentContext = EmptyMap
    /\ currentBuffer = <<>> /\ htmlOutputBuffer = [open |-> FALSE, value |-> <<>>]
    /\ cwd \in Dirs /\ rootDir = RootDir
    /\ files \in SUBSET ResolvePaths /\ unreadable = {}
    /\ stack = <<>> /\ status = "idle"
    /\ TextIdle

Resolve(ref) ==
    /\ reference' = ref
    /\ resolved' = ResolvePath(ref, cwd)
    /\ UNCHANGED <<constants, currentBuffer, currentContext, cwd, htmlOutputBuffer, initialConstants,
                   rootDir, files, unreadable, iterVars, serialVars, optionsContext, stack, status, templateText, dom, selector, results,
                   template, lastIndex, evaluated, output>>

NextResolve == \E ref \in References : Resolve(ref)

SpecResolve == InitResolve /\ [][NextResolve]_vars

\* The name a reference ends with, and the file of that name in a directory.
BaseName(ref) == IF ref.base \in DOMAIN Rooted THEN Rooted[ref.base] ELSE ref.base
Under(dir, ref) == [dir |-> dir, base |-> BaseName(ref)]

\* C17: a reference that starts with a slash resolves to the file under the
\* root directory when it exists and fails otherwise; a relative reference
\* resolves to the file under cwd when it exists, otherwise to the file under
\* the root directory when cwd is not the root directory and it exists,
\* otherwise it fails.
C17_ResolutionOrder ==
    reference # NoRef
    => resolved =
         IF reference.slash
         THEN (IF Under(rootDir, reference) \in files THEN Under(rootDir, reference) ELSE NoPath)
         ELSE IF Under(cwd, reference) \in files THEN Under(cwd, reference)
         ELSE IF cwd # rootDir /\ Under(rootDir, reference) \in files THEN Under(rootDir, reference)
         ELSE NoPath

(***************************************************************************)
(* SpecSentinel: documents whose script blocks echo, assign or call names  *)
(* that may be unknown, or define an arrow function with a parameter; K    *)
(* may be a constant.                                                      *)
(***************************************************************************)
SentinelMaxBlocks == 2   \* script blocks per document in SpecSentinel

ParamStmts(names, params, vals) ==
    {<<Line("arrow1", n, v, FALSE, NoRef) @@ [p |-> q]>> : n \in names, q \in params, v \in vals}

SentinelBlocks ==
    ParamStmts({"f"}, {"x"}, {<<"1">>})
    \cup {st \o c : st \in ParamStmts({"f"}, {"x"}, {<<"1">>}), c \in EchoCallStmts({"f"})}
    \cup EchoStmts({"x", "K"})
    \cup EchoCallStmts({"f"})
    \cup AssignStmts({"x"}, {<<"1">>})

InitSentinel ==
    /\ Init
    /\ rootDir = RootDir
    /\ files = {}
    /\ unreadable = {}
    /\ TextIdle

NextSentinel ==
    \/ Process(EmptyMap, RootDir)
    \/ BeginBlock(SentinelBlocks, SentinelMaxBlocks, {"html"})
    \/ EndBlock
    \/ Assign
    \/ Context
    \/ Echo
    \/ EvaluationError
    \/ EndProcess({"html"})

SpecSentinel == InitSentinel /\ [][NextSentinel]_vars

\* The identifiers a block declares: its declarator ids and its function
\* parameters.
DeclaredInBlock(lines) == DeclaredVars(lines) \cup ParamNames(lines)

\* C18: when a block begins, a name that is neither a context variable nor a
\* constant starts bound to its sentinel exactly when the block uses it and
\* does not declare it (as a declarator id or a function parameter); a name
\* the block declares never starts bound to its sentinel by the rewriter.
C18_SentinelExactlyForUnknown ==
    [][BlockBegins
       => \A n \in Names :
            (~Has(currentContext, n) /\ ~Has(constants, n))
            => ((Top'.env[n] = Sentinel(n))
                <=> (n \in UsedVars(Top'.code) \ DeclaredInBlock(Top'.code)))]_vars

(***************************************************************************)
(* SpecParse: the tokenizer on its own.  A text is parsed, and the tree is *)
(* serialized with or without its comments.  The texts are built from      *)
(* whole elements and text runs: every tag is terminated, every closing    *)
(* tag follows its opening tag, and there is no comment.                   *)
(***************************************************************************)
ParseMaxParts == 2    \* parts (text run or element) per text

Element(tag, attrText, inner) == <<"<">> \o tag \o attrText \o <<">">> \o inner \o CloseTag(tag)
AttrTexts ==
    {<<>>,
     <<Ws, "id", "=", Quote, "m", Quote>>,       \* id="m"
     <<Ws, "id", "=", Apos, "m", Apos>>,         \* id='m'
     <<Ws, "id", "=", "m">>,                     \* id=m
     <<Ws, "hidden">>,                           \* hidden
     <<Ws, "id", "=", Quote, Quote>>}            \* id=""
ParseParts ==
    {<<"t">>, <<"t", Ws, "u">>}
    \cup {Element(<<"p">>, a, <<"t">>) : a \in AttrTexts}
    \cup {Element(<<"div">>, <<>>, Element(<<"p">>, a, <<>>)) : a \in AttrTexts}
RECURSIVE ParseTexts(_)
ParseTexts(n) ==
    IF n = 0 THEN {<<>>} ELSE ParseTexts(n - 1) \cup {d \o part : d \in ParseTexts(n - 1), part \in ParseParts}

InitParse ==
    /\ constants = EmptyMap /\ initialConstants = EmptyMap /\ currentContext = EmptyMap
    /\ currentBuffer = <<>> /\ htmlOutputBuffer = [open |-> FALSE, value |-> <<>>]
    /\ cwd = RootDir /\ rootDir = RootDir /\ files = {} /\ unreadable = {}
    /\ stack = <<>> /\ status = "idle"
    /\ templateText \in ParseTexts(ParseMaxParts) \ {<<>>}
    /\ dom = <<>> /\ selector = <<>> /\ results = <<>>
    /\ template = <<>> /\ lastIndex = 0 /\ evaluated = <<>> /\ output = <<>>
    /\ reference = NoRef /\ resolved = NoPath
    /\ iterators = <<>> /\ protoRemove = 0
    /\ jsValue = Js("undefined", <<>>) /\ fragment = <<>> /\ revived = Js("undefined", <<>>)
    /\ optionsContext = NoOptions

\* dom = parser.parse(templateText)
ParseText ==
    /\ status = "idle"
    /\ dom' = Parse(templateText)
    /\ status' = "parsed"
    /\ UNCHANGED <<constants, currentBuffer, currentContext, cwd, htmlOutputBuffer, initialConstants,
                   rootDir, files, unreadable, iterVars, serialVars, optionsContext, stack, templateText, selector, results,
                   template, lastIndex, evaluated, output, reference, resolved>>

\* output = dom.toHtml(showComments)
Serialize(showComments) ==
    /\ status = "parsed"
    /\ output' = InnerHtml(dom, 0, 1, showComments)
    /\ status' = "serialized"
    /\ UNCHANGED <<constants, currentBuffer, currentContext, cwd, htmlOutputBuffer, initialConstants,
                   rootDir, files, unreadable, iterVars, serialVars, optionsContext, stack, templateText, dom, selector, results,
                   template, lastIndex, evaluated, reference, resolved>>

NextParse ==
    \/ ParseText
    \/ \E showComments \in BOOLEAN : Serialize(showComments)

SpecParse == InitParse /\ [][NextParse]_vars

\* C19: a text without tokenizer anomalies (every text of SpecParse), parsed
\* and serialized, is the text again.
C19_ParseSerializeStable == status = "serialized" => output = templateText

(***************************************************************************)
(* Selector queries (Node.querySelectorAll and what it calls).  A selector *)
(* is a text; a result is the sequence of the indices of the nodes found.  *)
(* The node at index 0 is the root.                                        *)
(***************************************************************************)
NodeType(tree, i) == IF i = 0 THEN "root" ELSE tree[i].type

\* node.children, as indices.
RECURSIVE ChildrenFrom(_, _, _)
ChildrenFrom(tree, i, from) ==
    IF from > Len(tree) THEN <<>>
    ELSE (IF tree[from].parent = i THEN <<from>> ELSE <<>>) \o ChildrenFrom(tree, i, from + 1)
Children(tree, i) == ChildrenFrom(tree, i, 1)

\* node.getAttribute(name): the value, or NoVal for undefined.
GetAttribute(node, name) ==
    IF \E i \in DOMAIN node.attributes : node.attributes[i].name = name
    THEN node.attributes[CHOOSE i \in DOMAIN node.attributes : node.attributes[i].name = name].value
    ELSE NoVal

\* The first index at or after from where s holds c, or 0.
Find(s, c, from) == IndexOf(s, <<c>>, from)

\* What #executeBasicSelector reads in a selector: the tag name it starts
\* with, the id after the first #, the class after every dot, and the
\* bracketed attribute tests.
SelectorTag(sel) == IF sel # <<>> /\ IsWord(sel[1]) THEN <<sel[1]>> ELSE <<>>
SelectorId(sel) ==
    LET i == Find(sel, "#", 1)
    IN IF i # 0 /\ i < Len(sel) /\ IsWord(sel[i + 1]) THEN <<sel[i + 1]>> ELSE <<>>
SelectorClasses(sel) ==
    {sel[i + 1] : i \in {j \in 1..(Len(sel) - 1) : sel[j] = "." /\ IsWord(sel[j + 1])}}
\* rawValue.replace(/^["'](.*)["']$/, '$1')
Unquote(v) ==
    IF Len(v) >= 2 /\ v[1] \in {Quote, Apos} /\ v[Len(v)] \in {Quote, Apos}
    THEN SubSeq(v, 2, Len(v) - 1) ELSE v
AttributeTest(content) ==
    LET eq == Find(content, "=", 1)
        eq2 == IF eq = 0 THEN 0 ELSE Find(content, "=", eq + 1)
    IN IF eq = 0 THEN [name |-> content, value |-> <<>>, hasValue |-> FALSE]
       ELSE [name |-> SubSeq(content, 1, eq - 1),
             value |-> Unquote(SubSeq(content, eq + 1, IF eq2 = 0 THEN Len(content) ELSE eq2 - 1)),
             hasValue |-> TRUE]
SelectorAttributes(sel) ==
    {AttributeTest(SubSeq(sel, i + 1, Find(sel, "]", i + 2) - 1)) :
        i \in {j \in DOMAIN sel : sel[j] = "[" /\ Find(sel, "]", j + 2) # 0}}

\* The test of one node in the traversal.
NodeClasses(node) ==
    LET value == GetAttribute(node, <<"class">>)
    IN IF value = NoVal THEN {} ELSE {value[i] : i \in {j \in DOMAIN value : value[j] \notin Spaces}}
NodeMatches(node, sel) ==
    /\ node.type = "tag-open"
    /\ SelectorTag(sel) # <<>> => node.name = SelectorTag(sel)
    /\ SelectorId(sel) # <<>> => GetAttribute(node, <<"id">>) = SelectorId(sel)
    /\ SelectorClasses(sel) \subseteq NodeClasses(node)
    /\ \A attr \in SelectorAttributes(sel) :
          IF attr.hasValue THEN GetAttribute(node, attr.name) = attr.value
          ELSE GetAttribute(node, attr.name) # NoVal

\* The traversal: the queue is shifted and the children of the node are
\* pushed at its end.
RECURSIVE Traverse(_, _, _)
Traverse(tree, queue, sel) ==
    IF queue = <<>> THEN <<>>
    ELSE LET i == Head(queue)
         IN (IF i # 0 /\ NodeMatches(tree[i], sel) THEN <<i>> ELSE <<>>)
            \o Traverse(tree, Tail(queue) \o Children(tree, i), sel)

\* results.push(x) for every x of more that results does not include.
RECURSIVE PushNew(_, _)
PushNew(res, more) ==
    IF more = <<>> THEN res
    ELSE PushNew(IF \E i \in DOMAIN res : res[i] = Head(more) THEN res ELSE Append(res, Head(more)),
                 Tail(more))

\* selector.split(/\s+/): the first part, and the others joined by a space.
FirstPart(sel) == SubSeq(sel, 1, Find(sel, Ws, 1) - 1)
RECURSIVE SkipSpaces(_)
SkipSpaces(s) == IF s # <<>> /\ s[1] \in Spaces THEN SkipSpaces(Tail(s)) ELSE s
OtherParts(sel) == SkipSpaces(SubSeq(sel, Find(sel, Ws, 1), Len(sel)))

RECURSIVE ExecuteBasicSelector(_, _, _)
RECURSIVE Descendants(_, _, _, _)
ExecuteBasicSelector(tree, this, sel) ==
    IF Find(sel, Ws, 1) # 0
    THEN Descendants(tree, ExecuteBasicSelector(tree, this, FirstPart(sel)), OtherParts(sel), <<>>)
    ELSE Traverse(tree, <<this>>, sel)
\* The loop over the ancestors of a descendant selector.
Descendants(tree, ancestors, sel, res) ==
    IF ancestors = <<>> THEN res
    ELSE Descendants(tree, Tail(ancestors), sel,
                     PushNew(res, ExecuteBasicSelector(tree, Head(ancestors), sel)))

\* selector.replace(/:not\(([^)]+)\)/g, ...): the arguments of the :not()
\* groups, trimmed, and the selector without the groups.
NotAt(sel, i) ==
    /\ i + 4 <= Len(sel)
    /\ SubSeq(sel, i, i + 2) = <<":", "not", "(">>
    /\ Find(sel, ")", i + 4) # 0
RECURSIVE NotSelectors(_, _)
NotSelectors(sel, from) ==
    IF from > Len(sel) THEN <<>>
    ELSE IF NotAt(sel, from)
         THEN <<Trim(SubSeq(sel, from + 3, Find(sel, ")", from + 4) - 1))>>
              \o NotSelectors(sel, Find(sel, ")", from + 4) + 1)
         ELSE NotSelectors(sel, from + 1)
RECURSIVE WithoutNot(_, _)
WithoutNot(sel, from) ==
    IF from > Len(sel) THEN <<>>
    ELSE IF NotAt(sel, from) THEN WithoutNot(sel, Find(sel, ")", from + 4) + 1)
         ELSE <<sel[from]>> \o WithoutNot(sel, from + 1)

RECURSIVE AllTags(_, _)
AllTags(tree, queue) ==
    IF queue = <<>> THEN <<>>
    ELSE (IF NodeType(tree, Head(queue)) = "tag-open" THEN <<Head(queue)>> ELSE <<>>)
         \o AllTags(tree, Tail(queue) \o Children(tree, Head(queue)))

FindMatchingNodes(tree, this, sel) ==
    LET notSelectors == NotSelectors(sel, 1)
        mainSelector == Trim(WithoutNot(sel, 1))
        candidateNodes == IF mainSelector = <<>> THEN AllTags(tree, <<this>>)
                          ELSE ExecuteBasicSelector(tree, this, mainSelector)
        excluded(i) == \E k \in DOMAIN notSelectors :
                          \E h \in DOMAIN ExecuteBasicSelector(tree, 0, notSelectors[k]) :
                             ExecuteBasicSelector(tree, 0, notSelectors[k])[h] = i
    IN SelectSeq(candidateNodes, LAMBDA i : ~excluded(i))

\* selector.split(',').map(trim)
RECURSIVE SplitComma(_)
SplitComma(sel) ==
    IF Find(sel, ",", 1) = 0 THEN <<Trim(sel)>>
    ELSE <<Trim(SubSeq(sel, 1, Find(sel, ",", 1) - 1))>>
         \o SplitComma(SubSeq(sel, Find(sel, ",", 1) + 1, Len(sel)))

RECURSIVE MergeResults(_, _, _, _)
MergeResults(tree, this, selectors, res) ==
    IF selectors = <<>> THEN res
    ELSE MergeResults(tree, this, Tail(selectors),
                      PushNew(res, FindMatchingNodes(tree, this, Head(selectors))))

QuerySelectorAll(tree, this, sel) ==
    IF Find(sel, ",", 1) # 0 THEN MergeResults(tree, this, SplitComma(sel), <<>>)
    ELSE FindMatchingNodes(tree, this, sel)

\* querySelector: the first result, or 0 for null.
QuerySelector(tree, this, sel) ==
    IF QuerySelectorAll(tree, this, sel) = <<>> THEN 0 ELSE QuerySelectorAll(tree, this, sel)[1]

(***************************************************************************)
(* SpecQuery: a text is parsed and the root of the tree is queried.        *)
(***************************************************************************)
Empty(tag, attrText) == Element(tag, attrText, <<>>)
QueryTexts ==
    {Element(<<"div">>, <<>>, Empty(<<"p">>, <<>>)) \o Empty(<<"p">>, <<>>),
     Element(<<"div">>, <<Ws, "id", "=", Quote, "m", Quote>>, Empty(<<"p">>, <<Ws, "class", "=", Quote, "c", Quote>>)),
     Empty(<<"p">>, <<Ws, "class", "=", Quote, "c", Ws, "d", Quote>>) \o Empty(<<"div">>, <<Ws, "hidden">>),
     Element(<<"div">>, <<>>, Element(<<"div">>, <<>>, Empty(<<"p">>, <<>>))),
     Empty(<<"p">>, <<>>) \o Empty(<<"div">>, <<>>) \o Empty(<<"p">>, <<Ws, "id", "=", Quote, "m", Quote>>),
     Empty(<<"div">>, <<>>),
     Element(<<"p">>, <<Ws, "hidden">>, <<"t">>),
     <<"t">>}
Selectors ==
    {<<"p">>, <<"div">>, <<"#", "m">>, <<".", "c">>, <<".", "c", ".", "d">>, <<"[", "hidden", "]">>,
     <<"[", "id", "=", "m", "]">>, <<"[", "id", "=", Quote, "m", Quote, "]">>, <<"p", "#", "m">>,
     <<"div", Ws, "p">>, <<"div", Ws, "div">>, <<"p", ",", Ws, "div">>,
     <<":", "not", "(", ".", "c", ")">>, <<"p", ":", "not", "(", "#", "m", ")">>}

InitQuery ==
    /\ constants = EmptyMap /\ initialConstants = EmptyMap /\ currentContext = EmptyMap
    /\ currentBuffer = <<>> /\ htmlOutputBuffer = [open |-> FALSE, value |-> <<>>]
    /\ cwd = RootDir /\ rootDir = RootDir /\ files = {} /\ unreadable = {}
    /\ stack = <<>> /\ status = "idle"
    /\ templateText \in QueryTexts
    /\ dom = <<>> /\ selector = <<>> /\ results = <<>>
    /\ template = <<>> /\ lastIndex = 0 /\ evaluated = <<>> /\ output = <<>>
    /\ reference = NoRef /\ resolved = NoPath
    /\ iterators = <<>> /\ protoRemove = 0
    /\ jsValue = Js("undefined", <<>>) /\ fragment = <<>> /\ revived = Js("undefined", <<>>)
    /\ optionsContext = NoOptions

\* results = dom.querySelectorAll(sel)
Query(sel) ==
    /\ status = "parsed"
    /\ selector' = sel
    /\ results' = QuerySelectorAll(dom, 0, sel)
    /\ status' = "queried"
    /\ UNCHANGED <<constants, currentBuffer, currentContext, cwd, htmlOutputBuffer, initialConstants,
                   rootDir, files, unreadable, iterVars, serialVars, optionsContext, stack, templateText, dom,
                   template, lastIndex, evaluated, output, reference, resolved>>

NextQuery ==
    \/ ParseText
    \/ \E sel \in Selectors : Query(sel)

SpecQuery == InitQuery /\ [][NextQuery]_vars

\* What it is for a node to match a selector: a compound selector tests the
\* node; a descendant selector tests the node with its last part and a proper
\* ancestor with the parts before; :not(inner) excludes the nodes that match
\* inner; a union matches the nodes that match one of its members.
RECURSIVE Ancestors(_, _)
Ancestors(tree, i) ==
    IF tree[i].parent = 0 THEN {} ELSE {tree[i].parent} \cup Ancestors(tree, tree[i].parent)
LastSpace(sel) == CHOOSE k \in DOMAIN sel : sel[k] = Ws /\ \A j \in DOMAIN sel : sel[j] = Ws => j <= k
RECURSIVE SelectedBasic(_, _, _)
SelectedBasic(tree, i, sel) ==
    IF Find(sel, Ws, 1) = 0 THEN NodeMatches(tree[i], sel)
    ELSE /\ NodeMatches(tree[i], SubSeq(sel, LastSpace(sel) + 1, Len(sel)))
         /\ \E a \in Ancestors(tree, i) : SelectedBasic(tree, a, TrimEnd(SubSeq(sel, 1, LastSpace(sel) - 1)))
SelectedOne(tree, i, sel) ==
    /\ tree[i].type = "tag-open"
    /\ Trim(WithoutNot(sel, 1)) # <<>> => SelectedBasic(tree, i, Trim(WithoutNot(sel, 1)))
    /\ \A k \in DOMAIN NotSelectors(sel, 1) : ~SelectedBasic(tree, i, NotSelectors(sel, 1)[k])
Selected(tree, i, sel) ==
    \E k \in DOMAIN SplitComma(sel) : SelectedOne(tree, i, SplitComma(sel)[k])

\* The nodes of a set in document order: parse creates the nodes in the order
\* they appear in the text.
RECURSIVE DocumentOrder(_)
DocumentOrder(set) ==
    IF set = {} THEN <<>>
    ELSE LET first == CHOOSE i \in set : \A j \in set : i <= j
         IN <<first>> \o DocumentOrder(set \ {first})

\* C20: querySelectorAll returns the tag-open nodes that match the selector,
\* each once, in document order, and querySelector returns the first of them.
C20_QueryInDocumentOrder ==
    status = "queried"
    => /\ results = DocumentOrder({i \in DOMAIN dom : Selected(dom, i, selector)})
       /\ QuerySelector(dom, 0, selector) =
            (IF results = <<>> THEN 0 ELSE DocumentOrder({i \in DOMAIN dom : Selected(dom, i, selector)})[1])

(***************************************************************************)
(* The tree as the nodes hold it: every node has its parent reference and  *)
(* its children list, which the operations of Node change separately.  A   *)
(* linked tree maps the index of a node (0 is the root) to the node; Null  *)
(* is the null reference.  skipChildren is the iterator whose closure the  *)
(* node's skipChildren method belongs to (0: the node has none).           *)
(***************************************************************************)
Null == 0 - 1

Link(tree) ==
    [i \in 0..Len(tree) |->
        [type |-> NodeType(tree, i),
         name |-> IF i = 0 THEN <<>> ELSE tree[i].name,
         parent |-> IF i = 0 THEN Null ELSE tree[i].parent,
         children |-> Children(tree, i),
         skipChildren |-> 0]]

\* Array.prototype.indexOf, counted from 1; 0 is -1.
IndexIn(arr, x) ==
    IF \E i \in DOMAIN arr : arr[i] = x
    THEN CHOOSE i \in DOMAIN arr : arr[i] = x /\ \A j \in DOMAIN arr : arr[j] = x => i <= j
    ELSE 0

\* arr.splice(index, count, ...items), index counted from 1.
Splice(arr, index, count, items) ==
    SubSeq(arr, 1, index - 1) \o items
    \o SubSeq(arr, IF index + count > Len(arr) + 1 THEN Len(arr) + 1 ELSE index + count, Len(arr))

\* The nodes remove() takes out of the parent's children with the node i: the
\* node, and the closing tag after it or the opening tag before it when the
\* names agree.
RemovedWith(t, i) ==
    LET siblings == t[t[i].parent].children
        index == IndexIn(siblings, i)
    IN IF t[i].parent = Null \/ index = 0 THEN <<>>
       ELSE IF /\ t[i].type = "tag-open" /\ index + 1 <= Len(siblings)
               /\ t[siblings[index + 1]].type = "tag-close"
               /\ t[siblings[index + 1]].name = t[i].name
            THEN <<i, siblings[index + 1]>>
       ELSE IF /\ t[i].type = "tag-close" /\ index > 1
               /\ t[siblings[index - 1]].type = "tag-open"
               /\ t[siblings[index - 1]].name = t[i].name
            THEN <<siblings[index - 1], i>>
       ELSE <<i>>

\* Node.prototype.remove as the class defines it.
OriginalRemove(t, i) ==
    LET gone == RemovedWith(t, i)
        par == t[i].parent
    IN IF gone = <<>> THEN t
       ELSE [t EXCEPT ![par].children = Splice(@, IndexIn(@, gone[1]), Len(gone), <<>>),
                      ![i].parent = Null]

\* appendChild(node) on the node at index this.
AppendChildTo(t, this, node) ==
    [t EXCEPT ![node].parent = this, ![this].children = Append(@, node)]

\* replaceWith(node) on the node at index this.
ReplaceWithIn(t, this, node) ==
    LET par == t[this].parent
        index == IF par = Null THEN 0 ELSE IndexIn(t[par].children, this)
    IN IF par = Null \/ index = 0 THEN t
       ELSE [t EXCEPT ![par].children = Splice(@, index, 1, <<node>>), ![node].parent = par]

(***************************************************************************)
(* Node[Symbol.iterator].  An iterator is the record of the variables of   *)
(* its closure; originalRemove and protoRemove name a function by the      *)
(* iterator whose patch it is (0: the remove of the class).  phase, yielded *)
(* and the two logs record what the consumer saw and did.                  *)
(***************************************************************************)
RECURSIVE GetNextNodeInAncestry(_, _)
GetNextNodeInAncestry(t, node) ==
    IF node = Null \/ (t[node].type = "root" /\ t[node].parent = Null) THEN Null
    ELSE IF t[node].parent # Null
            /\ IndexIn(t[t[node].parent].children, node) < Len(t[t[node].parent].children)
         THEN t[t[node].parent].children[IndexIn(t[t[node].parent].children, node) + 1]
    ELSE GetNextNodeInAncestry(t, t[node].parent)

GetNextNode(t, it, node) ==
    IF it.wasRemoved THEN
        IF t[node].parent # Null THEN GetNextNodeInAncestry(t, t[node].parent) ELSE Null
    ELSE IF ~it.skipChildrenForCurrentNode /\ t[node].children # <<>> THEN t[node].children[1]
    ELSE IF t[node].type = "root" /\ t[node].parent = Null THEN Null
    ELSE IF t[node].parent # Null /\ IndexIn(t[t[node].parent].children, node) = 0
         THEN GetNextNodeInAncestry(t, t[node].parent)
    ELSE IF t[node].parent # Null
            /\ IndexIn(t[t[node].parent].children, node) < Len(t[t[node].parent].children)
         THEN t[t[node].parent].children[IndexIn(t[t[node].parent].children, node) + 1]
    ELSE GetNextNodeInAncestry(t, t[node].parent)

\* The patches a function runs before the remove of the class, outermost first.
RECURSIVE Patches(_, _)
Patches(its, f) == IF f = 0 THEN <<>> ELSE <<f>> \o Patches(its, its[f].originalRemove)

IterMaxIterators == 1   \* iterators created on one tree

Active(id) == id \in DOMAIN iterators /\ iterators[id].phase = "active"
Yielded(id) == iterators[id].yielded[Len(iterators[id].yielded)]

\* for (const node of root): [Symbol.iterator]() on the root.
CreateIterator ==
    /\ status = "parsed"
    /\ Len(iterators) < IterMaxIterators
    /\ iterators' = Append(iterators,
          [currentNode |-> IF dom[0].children # <<>> THEN dom[0].children[1] ELSE 0,
           started |-> FALSE, skipChildrenForCurrentNode |-> FALSE, wasRemoved |-> FALSE,
           originalRemove |-> protoRemove,
           phase |-> "active", yielded |-> <<>>, skipped |-> {}, removed |-> <<>>])
    /\ protoRemove' = Len(iterators) + 1
    /\ UNCHANGED <<constants, currentBuffer, currentContext, cwd, htmlOutputBuffer, initialConstants,
                   rootDir, files, unreadable, serialVars, optionsContext, textVars, stack, status>>

\* iterator.next()
IteratorNext(id) ==
    LET it == iterators[id]
        reset == [it EXCEPT !.wasRemoved = FALSE, !.skipChildrenForCurrentNode = FALSE]
        nextNode == GetNextNode(dom, reset, it.currentNode)
    IN /\ status = "parsed"
       /\ Active(id)
       /\ IF it.currentNode = Null THEN
              /\ protoRemove' = it.originalRemove
              /\ iterators' = [iterators EXCEPT ![id].phase = "done"]
              /\ dom' = dom
          ELSE IF ~it.started THEN
              /\ iterators' = [iterators EXCEPT ![id].started = TRUE,
                                                ![id].yielded = Append(@, it.currentNode)]
              /\ dom' = [dom EXCEPT ![it.currentNode].skipChildren = id]
              /\ protoRemove' = protoRemove
          ELSE
              /\ iterators' = [iterators EXCEPT ![id] = [reset EXCEPT !.currentNode = nextNode,
                                                                       !.yielded = Append(@, it.currentNode)]]
              /\ dom' = IF nextNode # Null THEN [dom EXCEPT ![nextNode].skipChildren = id] ELSE dom
              /\ protoRemove' = IF nextNode # Null THEN protoRemove ELSE it.originalRemove
       /\ UNCHANGED <<constants, currentBuffer, currentContext, cwd, htmlOutputBuffer, initialConstants,
                      rootDir, files, unreadable, serialVars, optionsContext, stack, status, templateText, selector, results,
                      template, lastIndex, evaluated, output, reference, resolved>>

\* The consumer of iterator id calls skipChildren() on the node it was given.
SkipChildren(id) ==
    /\ status = "parsed"
    /\ Active(id)
    /\ iterators[id].yielded # <<>>
    /\ Len(iterators[id].yielded) \notin iterators[id].skipped
    /\ iterators' =
          [k \in DOMAIN iterators |->
              [IF k = id THEN [iterators[k] EXCEPT !.skipped = @ \cup {Len(iterators[id].yielded)}]
               ELSE iterators[k]
               EXCEPT !.skipChildrenForCurrentNode = @ \/ k = dom[Yielded(id)].skipChildren]]
    /\ UNCHANGED <<constants, currentBuffer, currentContext, cwd, htmlOutputBuffer, initialConstants,
                   rootDir, files, unreadable, serialVars, optionsContext, textVars, protoRemove, stack, status>>

\* The consumer of iterator id calls remove() on the node it was given: the
\* patches installed run, then the remove of the class.
RemoveYielded(id) ==
    /\ status = "parsed"
    /\ Active(id)
    /\ iterators[id].yielded # <<>>
    /\ \A r \in DOMAIN iterators[id].removed : iterators[id].removed[r].at # Len(iterators[id].yielded)
    /\ iterators' =
          [k \in DOMAIN iterators |->
              [IF k = id
               THEN [iterators[k] EXCEPT !.removed = Append(@, [at |-> Len(iterators[id].yielded),
                                                                nodes |-> RemovedWith(dom, Yielded(id))])]
               ELSE iterators[k]
               EXCEPT !.wasRemoved = @ \/ (/\ \E h \in DOMAIN Patches(iterators, protoRemove) :
                                                Patches(iterators, protoRemove)[h] = k
                                           /\ iterators[k].currentNode = Yielded(id))]]
    /\ dom' = OriginalRemove(dom, Yielded(id))
    /\ UNCHANGED <<constants, currentBuffer, currentContext, cwd, htmlOutputBuffer, initialConstants,
                   rootDir, files, unreadable, serialVars, optionsContext, protoRemove, stack, status, templateText, selector,
                   results, template, lastIndex, evaluated, output, reference, resolved>>

\* The consumer leaves its loop early; the iterator has no return method.
Abandon(id) ==
    /\ status = "parsed"
    /\ Active(id)
    /\ iterators' = [iterators EXCEPT ![id].phase = "abandoned"]
    /\ UNCHANGED <<constants, currentBuffer, currentContext, cwd, htmlOutputBuffer, initialConstants,
                   rootDir, files, unreadable, serialVars, optionsContext, textVars, protoRemove, stack, status>>

\* dom = parser.parse(templateText), with the children lists.
ParseTree ==
    /\ status = "idle"
    /\ dom' = Link(Parse(templateText))
    /\ status' = "parsed"
    /\ UNCHANGED <<constants, currentBuffer, currentContext, cwd, htmlOutputBuffer, initialConstants,
                   rootDir, files, unreadable, iterVars, serialVars, optionsContext, stack, templateText, selector, results,
                   template, lastIndex, evaluated, output, reference, resolved>>

IterTexts ==
    {Element(<<"div">>, <<>>, Element(<<"p">>, <<>>, <<"t">>)) \o Empty(<<"b">>, <<>>),
     <<"t">> \o Empty(<<"p">>, <<>>)}

InitIterate ==
    /\ constants = EmptyMap /\ initialConstants = EmptyMap /\ currentContext = EmptyMap
    /\ currentBuffer = <<>> /\ htmlOutputBuffer = [open |-> FALSE, value |-> <<>>]
    /\ cwd = RootDir /\ rootDir = RootDir /\ files = {} /\ unreadable = {}
    /\ stack = <<>> /\ status = "idle"
    /\ templateText \in IterTexts
    /\ dom = <<>> /\ selector = <<>> /\ results = <<>>
    /\ template = <<>> /\ lastIndex = 0 /\ evaluated = <<>> /\ output = <<>>
    /\ reference = NoRef /\ resolved = NoPath
    /\ iterators = <<>> /\ protoRemove = 0
    /\ jsValue = Js("undefined", <<>>) /\ fragment = <<>> /\ revived = Js("undefined", <<>>)
    /\ optionsContext = NoOptions

NextIterate ==
    \/ ParseTree
    \/ CreateIterator
    \/ \E id \in 1..IterMaxIterators :
          \/ IteratorNext(id)
          \/ SkipChildren(id)
          \/ RemoveYielded(id)
          \/ Abandon(id)

SpecIterate == InitIterate /\ [][NextIterate]_vars

(***************************************************************************)
(* What an iteration is expected to yield, read off the tree as it was     *)
(* parsed.                                                                 *)
(***************************************************************************)
Parsed == Link(Parse(templateText))

RECURSIVE PreOrder(_, _)
PreOrder(t, nodes) ==
    IF nodes = <<>> THEN <<>>
    ELSE <<nodes[1]>> \o PreOrder(t, t[nodes[1]].children) \o PreOrder(t, Tail(nodes))

Below(t, n) == {PreOrder(t, t[n].children)[k] : k \in DOMAIN PreOrder(t, t[n].children)}

\* The nodes of the document after the node n, without the nodes of gone and
\* the nodes below them.
Following(n, gone) ==
    LET pre == PreOrder(Parsed, Parsed[0].children)
        at == IndexIn(pre, n)
    IN SelectSeq(SubSeq(pre, at + 1, Len(pre)),
                 LAMBDA x : x \notin gone /\ \A g \in gone : x \notin Below(Parsed, g))

Untouched == \A id \in DOMAIN iterators : iterators[id].removed = <<>>

\* C27: an iteration of a tree that nothing modifies yields the nodes below
\* the root in depth-first pre-order, each exactly once, and when it reports
\* completion it has yielded all of them.
C27_IterationYieldsPreOrder ==
    \A id \in DOMAIN iterators :
        LET it == iterators[id]
            pre == PreOrder(Parsed, Parsed[0].children)
        IN (Untouched /\ it.skipped = {}) =>
              /\ Len(it.yielded) <= Len(pre)
              /\ it.yielded = SubSeq(pre, 1, Len(it.yielded))
              /\ it.phase = "done" => it.yielded = pre

\* C21: after the consumer has called skipChildren on the node it was just
\* given, the iterator yields no node below that node, and the next node it
\* yields is the first node of the document after that node and its
\* descendants (the next sibling, or the successor of the nearest ancestor).
C21_SkipChildrenSkipsSubtree ==
    \A id \in DOMAIN iterators :
        LET it == iterators[id]
        IN Untouched =>
              \A k \in it.skipped :
                  LET n == it.yielded[k]
                      rest == Following(n, {n})
                  IN /\ \A m \in DOMAIN it.yielded : m > k => it.yielded[m] \notin Below(Parsed, n)
                     /\ Len(it.yielded) > k =>
                           /\ rest # <<>>
                           /\ it.yielded[k + 1] = rest[1]
                     /\ (it.phase = "done" /\ rest # <<>>) => Len(it.yielded) > k

\* C22: after the consumer has removed the node it was just given, the
\* iterator yields next the first node of the document after the removed
\* nodes and their descendants, yields none of these descendants and no node
\* removed together with the node, and by completion has yielded every node
\* after it that is still in the tree.
C22_RemoveDuringIteration ==
    \A id \in DOMAIN iterators :
        LET it == iterators[id]
        IN (it.skipped = {} /\ Len(it.removed) = 1
            /\ \A other \in DOMAIN iterators : other # id => iterators[other].removed = <<>>) =>
              LET k == it.removed[1].at
                  n == it.yielded[k]
                  gone == {it.removed[1].nodes[j] : j \in DOMAIN it.removed[1].nodes}
                  rest == Following(n, gone)
              IN /\ \A m \in DOMAIN it.yielded :
                        m > k => /\ it.yielded[m] \notin Below(Parsed, n)
                                 /\ it.yielded[m] \notin gone \ {n}
                 /\ Len(it.yielded) > k => (rest # <<>> /\ it.yielded[k + 1] = rest[1])
                 /\ it.phase = "done" =>
                        \A j \in DOMAIN rest : \E m \in DOMAIN it.yielded : m > k /\ it.yielded[m] = rest[j]

\* C30: whenever iterators were created and none is still iterating (each ran
\* to completion or was abandoned), Node.prototype.remove is the remove of the
\* class: no iterator's patch is installed.
C30_RemoveRestored ==
    (iterators # <<>> /\ \A id \in DOMAIN iterators : iterators[id].phase # "active")
        => protoRemove = 0

(***************************************************************************)
(* The operations of Node that change the tree, applied to a parsed tree   *)
(* by a caller: remove() on a node of the document, appendChild and        *)
(* replaceWith with a node that is in no tree (its parent is null).        *)
(***************************************************************************)
MutateMaxChildren == 4   \* appendChild is not tried on a longer children list

\* The nodes of the documents tried.
MutateTexts ==
    {<<"t">> \o Empty(<<"p">>, <<>>),
     Element(<<"div">>, <<>>, Empty(<<"p">>, <<>>))}

NodeIds == UNION {0..Len(Parse(text)) : text \in MutateTexts}

Detached(node) == node \in DOMAIN dom /\ node # 0 /\ dom[node].parent = Null

\* dom[this].appendChild(dom[node])
AppendChild(this, node) ==
    /\ status = "parsed"
    /\ Detached(node) /\ node # this
    /\ this \in DOMAIN dom
    /\ Len(dom[this].children) < MutateMaxChildren
    /\ dom' = AppendChildTo(dom, this, node)
    /\ UNCHANGED <<constants, currentBuffer, currentContext, cwd, htmlOutputBuffer, initialConstants,
                   rootDir, files, unreadable, iterVars, serialVars, optionsContext, stack, status, templateText, selector,
                   results, template, lastIndex, evaluated, output, reference, resolved>>

\* dom[node].remove(), with no iterator created
Remove(node) ==
    /\ status = "parsed"
    /\ protoRemove = 0
    /\ node \in DOMAIN dom
    /\ dom' = OriginalRemove(dom, node)
    /\ dom' # dom
    /\ UNCHANGED <<constants, currentBuffer, currentContext, cwd, htmlOutputBuffer, initialConstants,
                   rootDir, files, unreadable, iterVars, serialVars, optionsContext, stack, status, templateText, selector,
                   results, template, lastIndex, evaluated, output, reference, resolved>>

\* dom[this].replaceWith(dom[node])
ReplaceWith(this, node) ==
    /\ status = "parsed"
    /\ Detached(node) /\ node # this
    /\ this \in DOMAIN dom
    /\ dom' = ReplaceWithIn(dom, this, node)
    /\ dom' # dom
    /\ UNCHANGED <<constants, currentBuffer, currentContext, cwd, htmlOutputBuffer, initialConstants,
                   rootDir, files, unreadable, iterVars, serialVars, optionsContext, stack, status, templateText, selector,
                   results, template, lastIndex, evaluated, output, reference, resolved>>

NextMutate ==
    \/ ParseTree
    \/ \E this \in NodeIds, node \in NodeIds :
          \/ AppendChild(this, node)
          \/ ReplaceWith(this, node)
    \/ \E node \in NodeIds : Remove(node)

InitMutate ==
    /\ constants = EmptyMap /\ initialConstants = EmptyMap /\ currentContext = EmptyMap
    /\ currentBuffer = <<>> /\ htmlOutputBuffer = [open |-> FALSE, value |-> <<>>]
    /\ cwd = RootDir /\ rootDir = RootDir /\ files = {} /\ unreadable = {}
    /\ stack = <<>> /\ status = "idle"
    /\ templateText \in MutateTexts
    /\ dom = <<>> /\ selector = <<>> /\ results = <<>>
    /\ template = <<>> /\ lastIndex = 0 /\ evaluated = <<>> /\ output = <<>>
    /\ reference = NoRef /\ resolved = NoPath
    /\ iterators = <<>> /\ protoRemove = 0
    /\ jsValue = Js("undefined", <<>>) /\ fragment = <<>> /\ revived = Js("undefined", <<>>)
    /\ optionsContext = NoOptions

SpecMutate == InitMutate /\ [][NextMutate]_vars

CountIn(arr, x) == Cardinality({k \in DOMAIN arr : arr[k] = x})

\* C25: in a tree as parsed and after any appendChild, remove and replaceWith,
\* every node whose parent is not null occurs exactly once in the children of
\* that parent, and every node of a children list has the owner of the list
\* as its parent.
C25_ParentChildrenAgree ==
    status = "parsed" =>
        \A n \in DOMAIN dom :
            /\ dom[n].parent # Null => CountIn(dom[dom[n].parent].children, n) = 1
            /\ \A k \in DOMAIN dom[n].children : dom[dom[n].children[k]].parent = n

(***************************************************************************)
(* #serializeValue and the evaluation of the code it returns.  A string is *)
(* the sequence of its characters; code is a sequence of tokens: the       *)
(* characters of a template literal, and the words and signs of the other  *)
(* literals.                                                               *)
(***************************************************************************)
SerialMaxLen == 2     \* characters of a string
SerialMaxItems == 1   \* items of an array, entries of an object
SerialMaxDepth == 1   \* arrays and objects inside an array or object

StringChars == {"a", "n", "BACKTICK", "DOLLAR", "LBRACE", "BACKSLASH"}

\* value.replace(/`/g, '\\`')
RECURSIVE BacktickEscape(_)
BacktickEscape(str) ==
    IF str = <<>> THEN <<>>
    ELSE IF Head(str) = "BACKTICK" THEN <<"BACKSLASH", "BACKTICK">> \o BacktickEscape(Tail(str))
    ELSE <<Head(str)>> \o BacktickEscape(Tail(str))

\* .replace(/\$\{/g, '\\${')
RECURSIVE TemplateLiteralEscape(_)
TemplateLiteralEscape(str) ==
    IF str = <<>> THEN <<>>
    ELSE IF Len(str) >= 2 /\ str[1] = "DOLLAR" /\ str[2] = "LBRACE"
         THEN <<"BACKSLASH", "DOLLAR", "LBRACE">> \o TemplateLiteralEscape(SubSeq(str, 3, Len(str)))
    ELSE <<Head(str)>> \o TemplateLiteralEscape(Tail(str))

\* items.join(', ')
RECURSIVE JoinComma(_)
JoinComma(items) ==
    IF items = <<>> THEN <<>>
    ELSE IF Len(items) = 1 THEN items[1]
    ELSE items[1] \o <<",", " ">> \o JoinComma(Tail(items))

RECURSIVE SerializeJs(_)
SerializeJs(val) ==
    IF val.t = "null" THEN <<"null">>
    ELSE IF val.t = "undefined" THEN <<"undefined">>
    ELSE IF val.t = "string"
         THEN <<"BACKTICK">> \o TemplateLiteralEscape(BacktickEscape(val.v)) \o <<"BACKTICK">>
    ELSE IF val.t = "number" THEN val.v
    ELSE IF val.t = "boolean" THEN val.v
    ELSE IF val.t = "bigint" THEN val.v
    ELSE IF val.t = "array"
         THEN <<"[">> \o JoinComma([i \in DOMAIN val.items |-> SerializeJs(val.items[i])]) \o <<"]">>
    ELSE IF val.t = "date" THEN <<"new", " ", "Date", "(">> \o val.v \o <<")">>
    ELSE IF val.t = "regexp" THEN <<"/">> \o val.v \o <<"/">>
    ELSE IF val.t = "object"
         THEN <<"{">>
              \o JoinComma([i \in DOMAIN val.items |->
                               <<"QUOTE", val.v[i], "QUOTE", ":", " ">> \o SerializeJs(val.items[i])])
              \o <<"}">>
    ELSE <<"undefined">>

\* What the evaluator makes of code it cannot take as one of the literals.
NotAValue == [val |-> Js("error", <<>>), next |-> 0]
Digits == {"0", "1"}
At(code, i) == IF i \in DOMAIN code THEN code[i] ELSE None

\* The characters of a template literal from position i to its closing
\* backtick: a backslash takes the next character with it, and an unescaped
\* dollar sign before a brace opens a substitution.
RECURSIVE TemplateCooked(_, _, _)
TemplateCooked(code, i, acc) ==
    IF i > Len(code) THEN NotAValue
    ELSE IF code[i] = "BACKTICK" THEN [val |-> Js("string", acc), next |-> i + 1]
    ELSE IF code[i] = "BACKSLASH" THEN
        IF i + 1 > Len(code) THEN NotAValue
        ELSE TemplateCooked(code, i + 2,
                            Append(acc, IF code[i + 1] = "n" THEN "LF" ELSE code[i + 1]))
    ELSE IF code[i] = "DOLLAR" /\ At(code, i + 1) = "LBRACE" THEN NotAValue
    ELSE TemplateCooked(code, i + 1, Append(acc, code[i]))

RECURSIVE EvalAt(_, _), EvalItems(_, _, _), EvalEntries(_, _, _)
EvalAt(code, i) ==
    LET tok == At(code, i)
    IN IF tok = "null" THEN [val |-> Js("null", <<>>), next |-> i + 1]
       ELSE IF tok = "undefined" THEN [val |-> Js("undefined", <<>>), next |-> i + 1]
       ELSE IF tok \in {"true", "false"} THEN [val |-> Js("boolean", <<tok>>), next |-> i + 1]
       ELSE IF tok \in Digits THEN [val |-> Js("number", <<tok>>), next |-> i + 1]
       ELSE IF tok = "BACKTICK" THEN TemplateCooked(code, i + 1, <<>>)
       ELSE IF tok = "[" THEN
           IF At(code, i + 1) = "]" THEN [val |-> Js("array", <<>>), next |-> i + 2]
           ELSE EvalItems(code, i + 1, Js("array", <<>>))
       ELSE IF tok = "new" THEN
           IF /\ At(code, i + 1) = " " /\ At(code, i + 2) = "Date" /\ At(code, i + 3) = "("
              /\ At(code, i + 4) \in Digits /\ At(code, i + 5) = ")"
           THEN [val |-> Js("date", <<code[i + 4]>>), next |-> i + 6]
           ELSE NotAValue
       ELSE IF tok = "/" THEN
           IF At(code, i + 1) # None /\ At(code, i + 2) = "/"
           THEN [val |-> Js("regexp", <<code[i + 1]>>), next |-> i + 3]
           ELSE NotAValue
       ELSE IF tok = "{" THEN
           IF At(code, i + 1) = "}" THEN [val |-> Js("object", <<>>), next |-> i + 2]
           ELSE EvalEntries(code, i + 1, Js("object", <<>>))
       ELSE NotAValue

EvalItems(code, i, acc) ==
    LET item == EvalAt(code, i)
    IN IF item = NotAValue THEN NotAValue
       ELSE IF At(code, item.next) = "]"
            THEN [val |-> [acc EXCEPT !.items = Append(@, item.val)], next |-> item.next + 1]
       ELSE IF At(code, item.next) = "," /\ At(code, item.next + 1) = " "
            THEN EvalItems(code, item.next + 2, [acc EXCEPT !.items = Append(@, item.val)])
       ELSE NotAValue

EvalEntries(code, i, acc) ==
    IF ~(/\ At(code, i) = "QUOTE" /\ At(code, i + 1) # None /\ At(code, i + 2) = "QUOTE"
         /\ At(code, i + 3) = ":" /\ At(code, i + 4) = " ")
    THEN NotAValue
    ELSE LET entry == EvalAt(code, i + 5)
         IN IF entry = NotAValue THEN NotAValue
            ELSE IF At(code, entry.next) = "}"
                 THEN [val |-> [acc EXCEPT !.v = Append(@, code[i + 1]),
                                           !.items = Append(@, entry.val)],
                       next |-> entry.next + 1]
            ELSE IF At(code, entry.next) = "," /\ At(code, entry.next + 1) = " "
                 THEN EvalEntries(code, entry.next + 2,
                                  [acc EXCEPT !.v = Append(@, code[i + 1]),
                                              !.items = Append(@, entry.val)])
            ELSE NotAValue

\* The value of the code taken as one expression.
EvalFragment(code) ==
    IF EvalAt(code, 1).next = Len(code) + 1 THEN EvalAt(code, 1).val ELSE Js("error", <<>>)

SeqsUpTo(S, n) == UNION {[1..k -> S] : k \in 0..n}

Scalars ==
    {Js("null", <<>>), Js("undefined", <<>>), Js("boolean", <<"true">>), Js("boolean", <<"false">>)}
    \cup {Js("string", str) : str \in SeqsUpTo(StringChars, SerialMaxLen)}
    \cup {Js(t, <<d>>) : t \in {"number", "bigint", "date"}, d \in Digits}
    \cup {Js("regexp", <<"a">>)}

RECURSIVE JsValues(_)
JsValues(depth) ==
    LET inner == IF depth = 0 THEN Scalars ELSE JsValues(depth - 1)
    IN inner
       \cup {JsOf("array", <<>>, items) : items \in SeqsUpTo(inner, SerialMaxItems)}
       \cup {JsOf("object", [i \in DOMAIN items |-> "k"], items) :
                 items \in SeqsUpTo(inner, SerialMaxItems)}

InitSerial ==
    /\ constants = EmptyMap /\ initialConstants = EmptyMap /\ currentContext = EmptyMap
    /\ currentBuffer = <<>> /\ htmlOutputBuffer = [open |-> FALSE, value |-> <<>>]
    /\ cwd = RootDir /\ rootDir = RootDir /\ files = {} /\ unreadable = {}
    /\ stack = <<>> /\ status = "idle"
    /\ templateText = <<>> /\ dom = <<>> /\ selector = <<>> /\ results = <<>>
    /\ template = <<>> /\ lastIndex = 0 /\ evaluated = <<>> /\ output = <<>>
    /\ reference = NoRef /\ resolved = NoPath
    /\ iterators = <<>> /\ protoRemove = 0
    /\ jsValue \in JsValues(SerialMaxDepth)
    /\ fragment = <<>> /\ revived = Js("undefined", <<>>)
    /\ optionsContext = NoOptions

\* fragment = this.#serializeValue(jsValue)
SerializeValueCall ==
    /\ status = "idle"
    /\ fragment' = SerializeJs(jsValue)
    /\ status' = "encoded"
    /\ UNCHANGED <<constants, currentBuffer, currentContext, cwd, htmlOutputBuffer, initialConstants,
                   rootDir, files, unreadable, textVars, iterVars, jsValue, revived,
                   optionsContext, stack>>

\* The code is evaluated where the rewriter put it.
EvaluateFragment ==
    /\ status = "encoded"
    /\ revived' = EvalFragment(fragment)
    /\ status' = "revived"
    /\ UNCHANGED <<constants, currentBuffer, currentContext, cwd, htmlOutputBuffer, initialConstants,
                   rootDir, files, unreadable, textVars, iterVars, jsValue, fragment,
                   optionsContext, stack>>

NextSerial == SerializeValueCall \/ EvaluateFragment

SpecSerial == InitSerial /\ [][NextSerial]_vars

\* C23: the value of the code #serializeValue returns for a value is equal
\* to the value and of the same type, for null, undefined, strings, numbers,
\* booleans, big integers, arrays, dates, regular expressions and plain
\* objects.
C23_SerializeRoundTrip == status = "revived" => revived = jsValue

\* C26: while process runs and when it has returned, no name is a key of
\* #constants and of #currentContext at once.
C26_ConstantsAndContextDisjoint ==
    status \in {"running", "done"} =>
        \A n \in Names : ~(Has(constants, n) /\ Has(currentContext, n))

(***************************************************************************)
(* SpecCwd: process calls, one after the other on one instance, on         *)
(* documents given as code with either directory as options.cwd.  A script *)
(* block is one include of 'a', plain or capturing, or an echo; the file a *)
(* may exist in either directory and may be unreadable, and an included    *)
(* file may include again.                                                 *)
(***************************************************************************)
CwdMaxBlocks == 1

CwdBlocks ==
    {Stmt("include", None, <<>>, FALSE, [slash |-> FALSE, base |-> "a"]),
     Stmt("declIncScoped", "x", <<>>, FALSE, [slash |-> FALSE, base |-> "a"])}
    \cup EchoStmts({None})

InitCwd ==
    /\ Init
    /\ initialConstants = EmptyMap
    /\ unreadable \subseteq files

\* process returns dom.toHtml() to its caller (line 733); the fields keep
\* their values until the next call.
ProcessReturn ==
    /\ status = "done"
    /\ status' = "idle"
    /\ stack' = <<>>
    /\ UNCHANGED <<constants, currentBuffer, currentContext, cwd, htmlOutputBuffer, initialConstants,
                   rootDir, files, unreadable, textVars, iterVars, serialVars, optionsContext>>

NextCwd ==
    \/ \E dir \in Dirs : Process(EmptyMap, dir)
    \/ BeginBlock(CwdBlocks, CwdMaxBlocks, {"html"})
    \/ EndBlock
    \/ Context
    \/ Echo
    \/ Include
    \/ EndInclude({"html"})
    \/ EndProcess({"html"})
    \/ ProcessReturn

SpecCwd == InitCwd /\ [][NextCwd]_vars

\* The directory of the document the activation i processes: options.cwd for
\* the document given to process, the directory of the file for an include.
DocumentDir(i) == IF i = 1 THEN stack[1].previousCwd ELSE Dirname(stack[i].file)

CallerMaxBlocks == 1

CallerContexts == {EmptyMap, [EmptyMap EXCEPT !["x"] = <<"1">>]}

\* The entries of the caller's mapping now.
CallerEntries == IF optionsContext.held THEN currentContext ELSE optionsContext.entries

\* process(code, {context, cwd}) up to the call of #processFile (lines 658-724),
\* with the mapping the context comes in: line 679 clears the Map that is
\* #currentContext, lines 688-694 take a Map as it is and copy an object.
ProcessOptions(kind, context, dir) ==
    /\ status = "idle"
    /\ constants' = initialConstants
    /\ currentBuffer' = <<>>
    /\ htmlOutputBuffer' = [open |-> FALSE, value |-> <<>>]
    /\ cwd' = dir
    /\ stack' = <<NewFrame(NoPath, FALSE, <<>>, dir, EmptyMap)>>
    /\ status' = "running"
    /\ rootDir' = IF rootDir = None THEN dir ELSE rootDir
    /\ IF optionsContext.kind = "none" THEN
           /\ currentContext' = context
           /\ optionsContext' = [kind |-> kind, passed |-> context, entries |-> context,
                                 held |-> kind = "map"]
       ELSE
           /\ kind = "object" /\ context = EmptyMap
           /\ currentContext' = EmptyMap
           /\ optionsContext' = [optionsContext EXCEPT
                                    !.entries = IF optionsContext.held THEN EmptyMap ELSE @,
                                    !.held = FALSE]
    /\ UNCHANGED <<initialConstants, files, unreadable, textVars, iterVars, serialVars>>

CallerBlocks ==
    ContextStmts({"x"}, {<<"2">>}) \cup AssignStmts({"x"}, {<<"2">>}) \cup EchoStmts({"x"})

InitCaller ==
    /\ Init
    /\ initialConstants = EmptyMap
    /\ rootDir = RootDir
    /\ files = {}
    /\ unreadable = {}

NextCaller ==
    \/ \E kind \in {"object", "map"}, context \in CallerContexts :
          ProcessOptions(kind, context, RootDir)
    \/ BeginBlock(CallerBlocks, CallerMaxBlocks, {"html", "empty"})
    \/ EndBlock
    \/ Assign
    \/ Context
    \/ Echo
    \/ EndProcess({"html", "empty"})
    \/ ProcessReturn

SpecCaller == InitCaller /\ [][NextCaller]_vars

\* C29: once a process call that was given a context mapping has returned,
\* and after every later process call, the mapping has the entries it had
\* when it was passed.
C29_CallerContextUntouched ==
    (optionsContext.kind # "none" /\ status \in {"done", "idle"})
        => CallerEntries = optionsContext.passed

(***************************************************************************)
(* SpecCycle: the include recursion over files with fixed contents.  The   *)
(* document given to process and the file /site/a each hold one script     *)
(* block that includes 'a' (the file binds the result, which captures);    *)
(* the file /site/sub/a holds markup only.  From the directory /site the   *)
(* reference resolves to /site/a, so that file includes itself.  #include  *)
(* keeps nothing about the files being processed (#includes, line 140, is  *)
(* only cleared), so each call starts an activation.  The model keeps the  *)
(* document and the CycleMaxDepth innermost activations of included files: *)
(* an include beyond that takes the place of its caller, which could only  *)
(* go on after the include has returned.  A step that is enabled is taken: *)
(* the driver runs one call to its end without suspension.                 *)
(***************************************************************************)
CycleMaxDepth == 1
CycleMaxBlocks == 1

CycleRef == [slash |-> FALSE, base |-> "a"]
Leaf == PathResolve(SubDir, "a")

\* The script blocks of the document being processed.
CycleBlocks ==
    IF stack = <<>> \/ Top.file = Leaf THEN {}
    ELSE IF Top.file = NoPath
         THEN {Stmt("include", None, <<>>, FALSE, CycleRef),
               Stmt("declIncScoped", "x", <<>>, FALSE, CycleRef)}
    ELSE {Stmt("declIncScoped", "x", <<>>, FALSE, CycleRef)}

\* The document has no script block left.
NoBlockLeft == stack # <<>> /\ Top.nblocks = (IF Top.file = Leaf THEN 0 ELSE CycleMaxBlocks)

\* The match of the next script block, at any depth of the recursion.
BeginBlockOfFile ==
    /\ Running
    /\ ~Top.inBlock
    /\ ~NoBlockLeft
    /\ \E kind \in {"html", "empty"}, lines \in CycleBlocks :
        LET htmlContent == Region(kind, Top.nblocks + 1)
            f == [Top EXCEPT
                    !.inBlock = TRUE,
                    !.nblocks = @ + 1,
                    !.code = lines,
                    !.bound = Hoist(@, lines),
                    !.ops = PreprocessScriptBlock(lines, constants, currentContext),
                    !.env = InitialBindings(lines, constants, currentContext),
                    !.trail = Track(@, Event(kind, Top.nblocks + 1, TRUE))]
        IN  /\ kind = "html" => Top.file = NoPath
            /\ currentBuffer' = PushBuffer(htmlContent)
            /\ htmlOutputBuffer' = PushOb(htmlContent)
            /\ stack' = SetTop(Wrote(f, htmlContent))
    /\ UNCHANGED <<constants, currentContext, cwd, initialConstants, rootDir, files, unreadable,
                   textVars, iterVars, serialVars, optionsContext, status>>

\* #include from the document or from an activation the model has room above.
IncludeWithin == Len(stack) <= CycleMaxDepth /\ Include

\* #include from the innermost activation kept: the activation it starts
\* takes the place of its caller.
IncludeBeyond ==
    /\ Evaluating
    /\ Len(stack) = CycleMaxDepth + 1
    /\ NextOp.op = "include"
    /\ NextOp.sc # "true"
    /\ Shown(NextOp)
    /\ ResolvePath(NextOp.ref, cwd) \in files \ unreadable
    /\ cwd' = Dirname(ResolvePath(NextOp.ref, cwd))
    /\ currentBuffer' = IF NextOp.b THEN <<>> ELSE currentBuffer
    /\ stack' = Append(SubSeq(stack, 1, Len(stack) - 1),
                       NewFrame(ResolvePath(NextOp.ref, cwd), NextOp.b, currentBuffer, cwd, Top.bound))
    /\ UNCHANGED <<constants, currentContext, htmlOutputBuffer, initialConstants, rootDir, files,
                   unreadable, textVars, iterVars, serialVars, optionsContext, status>>

EndIncludedFile == NoBlockLeft /\ EndInclude({"empty"})
EndProcessedFile == NoBlockLeft /\ EndProcess({"html", "empty"})

InitCycle ==
    /\ Init
    /\ initialConstants = EmptyMap
    /\ PathResolve(RootDir, "a") \in files
    /\ unreadable = {}

NextCycle ==
    \/ \E dir \in Dirs : Process(EmptyMap, dir)
    \/ BeginBlockOfFile
    \/ EndBlock
    \/ Context
    \/ IncludeWithin
    \/ IncludeBeyond
    \/ EndIncludedFile
    \/ EndProcessedFile

SpecCycle == InitCycle /\ [][NextCycle]_vars /\ WF_vars(NextCycle)

\* C28: every process call returns: once it has started, the include
\* recursion ends and the call is done.
C28_ProcessTerminates == (status = "running") ~> (status = "done")


====
